---- MODULE Spec2Model ----
(***************************************************************************)
(* Polyhedron analysis and unfolding engine of MagnaMath (geometry.ts and  *)
(* PolyhedronViewer.tsx).                                                  *)
(*                                                                         *)
(* Numbers.  A coordinate is an integer number of ticks, one tick being    *)
(* 1e-5 length units, so that the 4-decimal quantisation of getVertexKey   *)
(* and the 1e-4 distance tolerance are both visible.  All comparisons of   *)
(* the source are evaluated exactly over these rationals (square roots are *)
(* removed by squaring, common factors by gcd reduction); the rounding of  *)
(* IEEE doubles is not modelled.                                           *)
(***************************************************************************)
EXTENDS Integers, Sequences, FiniteSets, TLC

VARIABLES
    geometry,        \* PolyhedronViewer prop: the triangle soup (positions)
    unfoldProgress,  \* PolyhedronViewer prop: progress, in 1/ProgressSteps
    polyFaces,       \* analysis useMemo: result of extractPolyhedra
    polyEdges,       \* analysis useMemo: result of extractPolyhedra
    spanningForest,  \* analysis useMemo: result of buildSpanningForest
    faceSides,       \* analysis useMemo: Map face id -> getPolygonSides
    faceTypes,       \* analysis useMemo: Map face id -> classifyFace
    stats,           \* analysis useMemo: GeometryStats
    transforms,      \* transforms useMemo: Map face id -> Matrix4
    parent,          \* the union-find array of the last extractPolyhedra call
    firstRun,        \* history: geometry and result of the first analysis
    args,            \* the arguments of a single function call; the new props of a render
    result,          \* the value a single function call returned; the blocks run in a render
    pc               \* "viewer", or the position of a single function call or render

vars == <<geometry, unfoldProgress, polyFaces, polyEdges, spanningForest,
          faceSides, faceTypes, stats, transforms, parent, firstRun, args,
          result, pc>>

----------------------------------------------------------------------------
(* Values of the host language *)

\* JavaScript `undefined` (a missing array slot, a missing Map key)
Undefined == 0 - 7

\* JavaScript `null` (parentFaceId / hingeEdge of a root)
Null == 0 - 9

\* one length unit in ticks
TicksPerUnit == 100000

\* the number of progress values above 0 (unfoldProgress = k / ProgressSteps)
ProgressSteps == 2

Abs(x) == IF x < 0 THEN 0 - x ELSE x

RECURSIVE Gcd(_, _)
Gcd(a, b) == IF b = 0 THEN a ELSE Gcd(b, a % b)

Gcd3(v) == Gcd(Gcd(Abs(v[1]), Abs(v[2])), Abs(v[3]))

Range(s) == {s[i] : i \in DOMAIN s}

----------------------------------------------------------------------------
(* THREE.Vector3 *)

subVectors(a, b) == <<a[1] - b[1], a[2] - b[2], a[3] - b[3]>>

crossVectors(a, b) ==
    <<a[2] * b[3] - a[3] * b[2],
      a[3] * b[1] - a[1] * b[3],
      a[1] * b[2] - a[2] * b[1]>>

dot(a, b) == a[1] * b[1] + a[2] * b[2] + a[3] * b[3]

lengthSq(a) == dot(a, a)

\* v divided by the positive integer g (g divides every component)
divideScalar(v, g) == <<v[1] \div g, v[2] \div g, v[3] \div g>>

\* the direction of v as the primitive integer vector; the zero vector stays
\* zero, as in Vector3.normalize (divideScalar(length() || 1))
normalize(v) == IF Gcd3(v) = 0 THEN v ELSE divideScalar(v, Gcd3(v))

\* a.distanceTo(b) < 1e-4, i.e. fewer than 10 ticks apart
distanceBelowTol(a, b) ==
    LET d == subVectors(a, b)
    IN  /\ Abs(d[1]) < 10 /\ Abs(d[2]) < 10 /\ Abs(d[3]) < 10
        /\ lengthSq(d) < 100

----------------------------------------------------------------------------
(* Strings, as sequences of character codes *)

ChDash == 45
ChComma == 44
ChDot == 46
ChZero == 48
ChBar == 124

RECURSIVE Decimal(_)
Decimal(n) ==
    IF n < 10 THEN <<ChZero + n>>
    ELSE Append(Decimal(n \div 10), ChZero + (n % 10))

\* Number.prototype.toFixed(4) of x ticks: the magnitude is rounded to the
\* nearest 1e-4 (ties to the larger), and the sign is kept even when the
\* rounded magnitude is zero
toFixed4(x) ==
    LET n    == (Abs(x) + 5) \div 10
        frac == n % 10000
    IN  (IF x < 0 THEN <<ChDash>> ELSE <<>>)
        \o Decimal(n \div 10000) \o <<ChDot>>
        \o <<ChZero + (frac \div 1000), ChZero + ((frac \div 100) % 10),
             ChZero + ((frac \div 10) % 10), ChZero + (frac % 10)>>

\* s < t for JavaScript strings (code unit order, a proper prefix is smaller)
RECURSIVE StrLess(_, _)
StrLess(s, t) ==
    IF t = <<>> THEN FALSE
    ELSE IF s = <<>> THEN TRUE
    ELSE IF Head(s) # Head(t) THEN Head(s) < Head(t)
    ELSE StrLess(Tail(s), Tail(t))

getVertexKey(v) ==
    toFixed4(v[1]) \o <<ChComma>> \o toFixed4(v[2]) \o <<ChComma>> \o toFixed4(v[3])

\* mutation of getEdgeKey: the two keys are joined in argument order
getEdgeKeyUnordered(vA, vB) == getVertexKey(vA) \o <<ChBar>> \o getVertexKey(vB)

getEdgeKey(vA, vB) ==
    LET keyA == getVertexKey(vA)
        keyB == getVertexKey(vB)
    IN  IF StrLess(keyA, keyB) THEN keyA \o <<ChBar>> \o keyB
        ELSE keyB \o <<ChBar>> \o keyA

\* the three edges of a triangle, in the order of the source
TriEdgeKeys(t) ==
    <<getEdgeKey(t.vertices[1], t.vertices[2]),
      getEdgeKey(t.vertices[2], t.vertices[3]),
      getEdgeKey(t.vertices[3], t.vertices[1])>>

----------------------------------------------------------------------------
(* getPolygonSides and classifyFace *)

\* edgeCounts.set(e, (edgeCounts.get(e) || 0) + 1) for every key of keys
RECURSIVE CountEdges(_, _)
CountEdges(edgeCounts, keys) ==
    IF keys = <<>> THEN edgeCounts
    ELSE LET e == Head(keys)
             c == IF e \in DOMAIN edgeCounts THEN edgeCounts[e] ELSE 0
         IN  CountEdges([k \in DOMAIN edgeCounts \cup {e} |->
                            IF k = e THEN c + 1 ELSE edgeCounts[k]],
                        Tail(keys))

RECURSIVE FaceEdgeKeys(_)
FaceEdgeKeys(tris) ==
    IF tris = <<>> THEN <<>>
    ELSE TriEdgeKeys(Head(tris)) \o FaceEdgeKeys(Tail(tris))

getPolygonSides(pf) ==
    LET edgeCounts == CountEdges(<<>>, FaceEdgeKeys(pf.triangles))
    IN  Cardinality({e \in DOMAIN edgeCounts : edgeCounts[e] = 1})

\* the squared lengths d12, d23, d31 of a triangle, divided by the square of
\* the common factor of the three edge vectors (every test of classifyFace
\* is homogeneous in the lengths)
SquaredLengths(t) ==
    LET e12 == subVectors(t.vertices[1], t.vertices[2])
        e23 == subVectors(t.vertices[2], t.vertices[3])
        e31 == subVectors(t.vertices[3], t.vertices[1])
        g   == Gcd(Gcd(Gcd3(e12), Gcd3(e23)), Gcd3(e31))
        h   == IF g = 0 THEN 1 ELSE g
    IN  <<lengthSq(divideScalar(e12, h)), lengthSq(divideScalar(e23, h)),
          lengthSq(divideScalar(e31, h))>>

\* [d12, d23, d31].sort((a, b) => a - b)
SortAscending(q) ==
    LET lo  == IF q[1] <= q[2] /\ q[1] <= q[3] THEN q[1]
               ELSE IF q[2] <= q[3] THEN q[2] ELSE q[3]
        hi  == IF q[1] >= q[2] /\ q[1] >= q[3] THEN q[1]
               ELSE IF q[2] >= q[3] THEN q[2] ELSE q[3]
    IN  <<lo, q[1] + q[2] + q[3] - lo - hi, hi>>

\* Math.abs(sa - sb) < 0.05 * s3 for lengths sa <= sb <= s3 given by their
\* squares: 20 sb < s3 + 20 sa, squared twice
NearEqual(qa, qb, q3) ==
    LET A == 400 * (qb - qa) - q3
    IN  A < 0 \/ A * A < 1600 * qa * q3

\* mutation of ClassifyTriangle: the isosceles test comes before the right-angle test
ClassifyTriangleIsoFirst(t) ==
    LET q  == SortAscending(SquaredLengths(t))
        q1 == q[1]
        q2 == q[2]
        q3 == q[3]
    IN  IF NearEqual(q1, q3, q3) THEN "Equilateral Triangle"
        ELSE IF NearEqual(q1, q2, q3) \/ NearEqual(q2, q3, q3)
             THEN IF NearEqual(q2, q3, q3) /\ 100 * q3 > 144 * q1
                  THEN "Isosceles Triangle (Tall)"
                  ELSE "Isosceles Triangle (Short)"
        ELSE IF 10 * Abs(q1 + q2 - q3) < q3 THEN "Right Triangle"
        ELSE "Equilateral Triangle"

ClassifyTriangle(t) ==
    LET q  == SortAscending(SquaredLengths(t))
        q1 == q[1]
        q2 == q[2]
        q3 == q[3]
    IN  IF NearEqual(q1, q3, q3) THEN "Equilateral Triangle"
        ELSE IF 10 * Abs(q1 + q2 - q3) < q3 THEN "Right Triangle"
        ELSE IF NearEqual(q1, q2, q3) \/ NearEqual(q2, q3, q3)
             THEN IF NearEqual(q2, q3, q3) /\ 100 * q3 > 144 * q1
                  THEN "Isosceles Triangle (Tall)"
                  ELSE "Isosceles Triangle (Short)"
        ELSE "Equilateral Triangle"

\* mutation of classifyFace: the octagon line is missing
classifyFaceNoOctagon(pf) ==
    LET sides == getPolygonSides(pf)
    IN  IF sides = 4 THEN "Small Square"
        ELSE IF sides = 6 THEN "Hexagon"
        ELSE IF sides = 3 THEN ClassifyTriangle(pf.triangles[1])
        ELSE "Other"

classifyFace(pf) ==
    LET sides == getPolygonSides(pf)
    IN  IF sides = 4 THEN "Small Square"
        ELSE IF sides = 6 THEN "Hexagon"
        ELSE IF sides = 8 THEN "Octagon"
        ELSE IF sides = 3 THEN ClassifyTriangle(pf.triangles[1])
        ELSE "Other"

----------------------------------------------------------------------------
(* extractPolyhedra *)

\* G * G * L < 10^10 for 0 < G < 10^5 and L > 0, without leaving 32 bits
BelowSq(G, L) ==
    IF G <= 2 THEN TRUE
    ELSE IF G > 46340
         THEN \/ L = 1
              \/ L = 2 /\ G <= 70710
              \/ L = 3 /\ G <= 57735
              \/ L = 4 /\ G <= 49999
    ELSE LET q == 100000 \div G
             r == 100000 % G
             d == L - q * q
             e == d * G - 2 * q * r
         IN  IF d < 0 THEN TRUE
             ELSE IF d = 0 THEN r > 0
             ELSE IF d >= 2 * q + 1 THEN FALSE
             ELSE IF e < 0 THEN TRUE
             ELSE IF e = 0 THEN r > 0
             ELSE IF e >= G THEN FALSE
             ELSE e * G < r * r

\* mutation of IsDegenerate: no triangle is skipped (as in src/geometry.ts)
IsDegenerateNever(cb, ab) == FALSE

\* cross.lengthSq() < 1e-10 for cross = cb x ab; in ticks the bound is 10^10,
\* and |cb x ab| = g1 g2 |u1 x u2| for cb = g1 u1, ab = g2 u2
IsDegenerate(cb, ab) ==
    LET g1 == Gcd3(cb)
        g2 == Gcd3(ab)
    IN  IF g1 = 0 \/ g2 = 0 THEN TRUE
        ELSE LET L == lengthSq(crossVectors(divideScalar(cb, g1),
                                            divideScalar(ab, g2)))
             IN  IF L = 0 THEN TRUE
                 ELSE IF g1 >= 100000 \/ g2 >= 100000 THEN FALSE
                 ELSE IF g1 > 100000 \div g2 THEN FALSE
                 ELSE IF g1 * g2 >= 100000 THEN FALSE
                 ELSE BelowSq(g1 * g2, L)

\* the unit normal cross.normalize(), kept as its primitive integer direction
TriNormal(cb, ab) ==
    LET g1 == Gcd3(cb)
        g2 == Gcd3(ab)
    IN  IF g1 = 0 \/ g2 = 0 THEN <<0, 0, 0>>
        ELSE normalize(crossVectors(divideScalar(cb, g1), divideScalar(ab, g2)))

\* t1.normal.dot(t2.normal) > 0.99 for unit normals of directions n1, n2
NormalsAligned(n1, n2) ==
    LET d == dot(n1, n2)
    IN  d > 0 /\ 10000 * d * d > 9801 * lengthSq(n1) * lengthSq(n2)

\* the ingestion loop: positions[k] holds the three points of the triangle at
\* buffer offset 9 (k - 1); its id is that offset divided by 9
RECURSIVE ReadTriangles(_, _)
ReadTriangles(positions, k) ==
    IF k > Len(positions) THEN <<>>
    ELSE LET v0 == positions[k][1]
             v1 == positions[k][2]
             v2 == positions[k][3]
             cb == subVectors(v2, v1)
             ab == subVectors(v0, v1)
             rest == ReadTriangles(positions, k + 1)
         IN  IF IsDegenerate(cb, ab) THEN rest
             ELSE <<[id |-> k - 1, vertices |-> <<v0, v1, v2>>,
                     normal |-> TriNormal(cb, ab), faceId |-> 0 - 1]>> \o rest

\* edgeMap.get(key).push(t), creating the entry on first use; the Map is the
\* sequence of its entries in insertion order, a triangle is its position in
\* the triangle list
RECURSIVE AddEdgeUse(_, _, _, _)
AddEdgeUse(edgeMap, key, t, i) ==
    IF i > Len(edgeMap) THEN Append(edgeMap, [key |-> key, tris |-> <<t>>])
    ELSE IF edgeMap[i].key = key
         THEN [edgeMap EXCEPT ![i].tris = Append(@, t)]
    ELSE AddEdgeUse(edgeMap, key, t, i + 1)

RECURSIVE BuildEdgeMap(_, _, _)
BuildEdgeMap(triangles, k, edgeMap) ==
    IF k > Len(triangles) THEN edgeMap
    ELSE LET keys == TriEdgeKeys(triangles[k])
             m1 == AddEdgeUse(edgeMap, keys[1], k, 1)
             m2 == AddEdgeUse(m1, keys[2], k, 1)
             m3 == AddEdgeUse(m2, keys[3], k, 1)
         IN  BuildEdgeMap(triangles, k + 1, m3)

\* mutation of NewParent: the array of the previous call is kept
NewParentStale(n) == [i \in 0 .. n - 1 |-> IF i \in DOMAIN parent THEN parent[i] ELSE i]

\* new Array(triangles.length).fill(0).map((_, i) => i)
NewParent(n) == [i \in 0 .. n - 1 |-> i]

\* parent[i], undefined for a slot that was never written
ParentGet(p, i) == IF i \in DOMAIN p THEN p[i] ELSE Undefined

\* parent[i] = v (also past the end of the array, and for the key undefined)
ParentSet(p, i, v) == [k \in DOMAIN p \cup {i} |-> IF k = i THEN v ELSE p[k]]

\* find(i) with path compression: the array after the call and the result
RECURSIVE find(_, _)
find(p, i) ==
    IF ParentGet(p, i) = i THEN [p |-> p, r |-> i]
    ELSE LET f == find(p, ParentGet(p, i))
         IN  [p |-> ParentSet(f.p, i, f.r), r |-> f.r]

\* parent[find(i)] = find(j)
union(p, i, j) ==
    LET fi == find(p, i)
        fj == find(fi.p, j)
    IN  ParentSet(fj.p, fi.r, fj.r)

\* mutation of MergeLoop: the first two triangles of an edge are united
\* also when more triangles use the edge
RECURSIVE MergeLoopAnyCount(_, _, _, _)
MergeLoopAnyCount(triangles, edgeMap, k, p) ==
    IF k > Len(edgeMap) THEN p
    ELSE LET tris == edgeMap[k].tris
         IN  IF Len(tris) >= 2
                /\ NormalsAligned(triangles[tris[1]].normal,
                                  triangles[tris[2]].normal)
             THEN MergeLoopAnyCount(triangles, edgeMap, k + 1,
                      union(p, triangles[tris[1]].id, triangles[tris[2]].id))
             ELSE MergeLoopAnyCount(triangles, edgeMap, k + 1, p)

\* lines 161-168: the loop over the entries of edgeMap
RECURSIVE MergeLoop(_, _, _, _)
MergeLoop(triangles, edgeMap, k, p) ==
    IF k > Len(edgeMap) THEN p
    ELSE LET tris == edgeMap[k].tris
         IN  IF Len(tris) = 2
                /\ NormalsAligned(triangles[tris[1]].normal,
                                  triangles[tris[2]].normal)
             THEN MergeLoop(triangles, edgeMap, k + 1,
                            union(p, triangles[tris[1]].id, triangles[tris[2]].id))
             ELSE MergeLoop(triangles, edgeMap, k + 1, p)

\* t.faceId = find(t.id) for every triangle, in list order
RECURSIVE TagTriangles(_, _, _)
TagTriangles(triangles, k, p) ==
    IF k > Len(triangles) THEN [triangles |-> triangles, parent |-> p]
    ELSE LET f == find(p, triangles[k].id)
         IN  TagTriangles([triangles EXCEPT ![k].faceId = f.r], k + 1, f.p)

\* mutation of AddToFace: the has() test is missing, the entry is set anew
RECURSIVE AddToFaceOverwrite(_, _, _)
AddToFaceOverwrite(faces, t, i) ==
    IF i > Len(faces)
    THEN Append(faces, [id |-> t.faceId, triangles |-> <<t>>, normal |-> t.normal])
    ELSE IF faces[i].id = t.faceId
         THEN [faces EXCEPT ![i] = [id |-> t.faceId, triangles |-> <<t>>,
                                    normal |-> t.normal]]
    ELSE AddToFaceOverwrite(faces, t, i + 1)

\* polyFacesMap: the faces in order of first insertion
RECURSIVE AddToFace(_, _, _)
AddToFace(faces, t, i) ==
    IF i > Len(faces)
    THEN Append(faces, [id |-> t.faceId, triangles |-> <<t>>, normal |-> t.normal])
    ELSE IF faces[i].id = t.faceId
         THEN [faces EXCEPT ![i].triangles = Append(@, t)]
    ELSE AddToFace(faces, t, i + 1)

RECURSIVE GroupFaces(_, _, _)
GroupFaces(triangles, k, faces) ==
    IF k > Len(triangles) THEN faces
    ELSE GroupFaces(triangles, k + 1, AddToFace(faces, triangles[k], 1))

\* the vertices vA of t1 that lie within 1e-4 of some vertex of t2
SharedVertices(t1, t2) ==
    SelectSeq(t1.vertices,
              LAMBDA vA : \E j \in 1 .. 3 : distanceBelowTol(vA, t2.vertices[j]))

\* mutation of EdgeLoop: the test t1.faceId !== t2.faceId is missing
RECURSIVE EdgeLoopAnyFaces(_, _, _)
EdgeLoopAnyFaces(triangles, edgeMap, k) ==
    IF k > Len(edgeMap) THEN <<>>
    ELSE LET tris == edgeMap[k].tris
             rest == EdgeLoopAnyFaces(triangles, edgeMap, k + 1)
         IN  IF Len(tris) = 2
             THEN LET t1 == triangles[tris[1]]
                      t2 == triangles[tris[2]]
                      shared == SharedVertices(t1, t2)
                  IN  IF Len(shared) >= 2
                      THEN <<[face1 |-> t1.faceId, face2 |-> t2.faceId,
                              v1 |-> shared[1], v2 |-> shared[2]]>> \o rest
                      ELSE rest
             ELSE rest

RECURSIVE EdgeLoop(_, _, _)
EdgeLoop(triangles, edgeMap, k) ==
    IF k > Len(edgeMap) THEN <<>>
    ELSE LET tris == edgeMap[k].tris
             rest == EdgeLoop(triangles, edgeMap, k + 1)
         IN  IF Len(tris) = 2
                /\ triangles[tris[1]].faceId # triangles[tris[2]].faceId
             THEN LET t1 == triangles[tris[1]]
                      t2 == triangles[tris[2]]
                      shared == SharedVertices(t1, t2)
                  IN  IF Len(shared) >= 2
                      THEN <<[face1 |-> t1.faceId, face2 |-> t2.faceId,
                              v1 |-> shared[1], v2 |-> shared[2]]>> \o rest
                      ELSE rest
             ELSE rest

\* lines 170-208: grouping by faceId and the PolyEdge loop, on the tagged triangles
ExtractTagged(edgeMap, tagged) ==
    [polyFaces |-> GroupFaces(tagged.triangles, 1, <<>>),
     polyEdges |-> EdgeLoop(tagged.triangles, edgeMap, 1),
     parent    |-> tagged.parent]

\* lines 152-168: the union-find array, the merge loop and the tagging
ExtractMerged(read, edgeMap) ==
    ExtractTagged(edgeMap,
        TagTriangles(read, 1, MergeLoop(read, edgeMap, 1, NewParent(Len(read)))))

\* lines 138-150: the edge map of the kept triangles
ExtractRead(read) == ExtractMerged(read, BuildEdgeMap(read, 1, <<>>))

extractPolyhedra(positions) == ExtractRead(ReadTriangles(positions, 1))

----------------------------------------------------------------------------
(* buildSpanningForest *)

(* A HingeNode is an element of the sequence `nodes`, in order of creation: *)
(* children holds positions in `nodes`, hingeEdge the position of the       *)
(* PolyEdge object in polyEdges (or Null), and `forest` lists the roots.    *)

\* adj.get(f) || []: the edges pushed under face id f, in the order of polyEdges
RECURSIVE Adj(_, _, _)
Adj(edges, f, k) ==
    IF k > Len(edges) THEN <<>>
    ELSE (IF edges[k].face1 = f THEN <<k>> ELSE <<>>)
         \o (IF edges[k].face2 = f THEN <<k>> ELSE <<>>)
         \o Adj(edges, f, k + 1)

\* mutation of NeighborId: the edge is always followed from face1 to face2
NeighborIdOneWay(e, faceId) == e.face2

\* const neighborId = e.face1 === node.faceId ? e.face2 : e.face1
NeighborId(e, faceId) == IF e.face1 = faceId THEN e.face2 ELSE e.face1

\* mutation of VisitEdges: hingeEdge is the first edge of the node's list,
\* not the edge e that led to the neighbour
RECURSIVE VisitEdgesFirstEdge(_, _, _, _)
VisitEdgesFirstEdge(st, edges, n, todo) ==
    IF todo = <<>> THEN st
    ELSE LET e == Head(todo)
             faceId == st.nodes[n].faceId
             neighborId == NeighborId(edges[e], faceId)
         IN  IF neighborId \notin st.visited
             THEN LET childNode == [faceId |-> neighborId, parentFaceId |-> faceId,
                                    hingeEdge |-> Adj(edges, faceId, 1)[1], children |-> <<>>]
                      c == Len(st.nodes) + 1
                  IN  VisitEdgesFirstEdge(
                          [visited |-> st.visited \cup {neighborId},
                           nodes   |-> [Append(st.nodes, childNode)
                                          EXCEPT ![n].children = Append(@, c)],
                           queue   |-> Append(st.queue, c)],
                          edges, n, Tail(todo))
             ELSE VisitEdgesFirstEdge(st, edges, n, Tail(todo))

\* mutation of VisitEdges: the edges of a new child are visited at once,
\* before the remaining edges of the node (depth first)
RECURSIVE VisitEdgesDepthFirst(_, _, _, _)
VisitEdgesDepthFirst(st, edges, n, todo) ==
    IF todo = <<>> THEN st
    ELSE LET e == Head(todo)
             faceId == st.nodes[n].faceId
             neighborId == NeighborId(edges[e], faceId)
         IN  IF neighborId \notin st.visited
             THEN LET childNode == [faceId |-> neighborId, parentFaceId |-> faceId,
                                    hingeEdge |-> e, children |-> <<>>]
                      c == Len(st.nodes) + 1
                  IN  VisitEdgesDepthFirst(
                          VisitEdgesDepthFirst(
                              [visited |-> st.visited \cup {neighborId},
                               nodes   |-> [Append(st.nodes, childNode)
                                              EXCEPT ![n].children = Append(@, c)],
                               queue   |-> Append(st.queue, c)],
                              edges, c, Adj(edges, neighborId, 1)),
                          edges, n, Tail(todo))
             ELSE VisitEdgesDepthFirst(st, edges, n, Tail(todo))

\* for (const e of edges) { ... } for the dequeued node n
RECURSIVE VisitEdges(_, _, _, _)
VisitEdges(st, edges, n, todo) ==
    IF todo = <<>> THEN st
    ELSE LET e == Head(todo)
             faceId == st.nodes[n].faceId
             neighborId == NeighborId(edges[e], faceId)
         IN  IF neighborId \notin st.visited
             THEN LET childNode == [faceId |-> neighborId, parentFaceId |-> faceId,
                                    hingeEdge |-> e, children |-> <<>>]
                      c == Len(st.nodes) + 1
                  IN  VisitEdges(
                          [visited |-> st.visited \cup {neighborId},
                           nodes   |-> [Append(st.nodes, childNode)
                                          EXCEPT ![n].children = Append(@, c)],
                           queue   |-> Append(st.queue, c)],
                          edges, n, Tail(todo))
             ELSE VisitEdges(st, edges, n, Tail(todo))

\* mutation of DrainQueue: the node taken is the last one pushed (pop)
RECURSIVE DrainQueueLifo(_, _)
DrainQueueLifo(st, edges) ==
    IF st.queue = <<>> THEN st
    ELSE LET n == st.queue[Len(st.queue)]
         IN  DrainQueueLifo(VisitEdges([st EXCEPT !.queue = SubSeq(@, 1, Len(@) - 1)],
                                       edges, n, Adj(edges, st.nodes[n].faceId, 1)),
                            edges)

\* while (queue.length > 0) { const { node } = queue.shift(); ... }
RECURSIVE DrainQueue(_, _)
DrainQueue(st, edges) ==
    IF st.queue = <<>> THEN st
    ELSE LET n == Head(st.queue)
         IN  DrainQueue(VisitEdges([st EXCEPT !.queue = Tail(@)], edges, n,
                                   Adj(edges, st.nodes[n].faceId, 1)),
                        edges)

\* for (const rootFace of polyFaces) { ... }
RECURSIVE GrowForest(_, _, _, _, _)
GrowForest(faces, edges, k, st, forest) ==
    IF k > Len(faces) THEN [nodes |-> st.nodes, forest |-> forest]
    ELSE IF faces[k].id \in st.visited
         THEN GrowForest(faces, edges, k + 1, st, forest)
    ELSE LET tree == [faceId |-> faces[k].id, parentFaceId |-> Null,
                      hingeEdge |-> Null, children |-> <<>>]
             r == Len(st.nodes) + 1
             started == [visited |-> st.visited \cup {faces[k].id},
                         nodes   |-> Append(st.nodes, tree),
                         queue   |-> <<r>>]
         IN  GrowForest(faces, edges, k + 1, DrainQueue(started, edges),
                        Append(forest, r))

\* mutation of buildSpanningForest: buildSpanningTree of src/geometry.ts, which
\* grows the tree of the first face only
buildSpanningTree(faces, edges) ==
    IF Len(faces) = 0 THEN [nodes |-> <<>>, forest |-> <<>>]
    ELSE GrowForest(SubSeq(faces, 1, 1), edges, 1,
                    [visited |-> {}, nodes |-> <<>>, queue |-> <<>>], <<>>)

buildSpanningForest(faces, edges) ==
    IF Len(faces) = 0 THEN [nodes |-> <<>>, forest |-> <<>>]
    ELSE GrowForest(faces, edges, 1,
                    [visited |-> {}, nodes |-> <<>>, queue |-> <<>>], <<>>)

----------------------------------------------------------------------------
(* computeTransforms *)

(* A Matrix4 is kept as the sequence of the factors multiplied into it, left *)
(* to right.  The angle atan2(|nC x nP|, nP . nC) is kept as the pair it is  *)
(* computed from, the applied rotation as that angle together with t.        *)

IdentityMatrix == <<>>

\* polyFacesMap.get(id): the position of the face in the list, 0 when absent
RECURSIVE FaceIndex(_, _, _)
FaceIndex(faces, id, k) ==
    IF k > Len(faces) THEN 0
    ELSE IF faces[k].id = id THEN k
    ELSE FaceIndex(faces, id, k + 1)

\* mutation of HingeTransform: the axis is nP x nC, not nC x nP
HingeTransformReversed(edge, nP, nC, t) ==
    LET cross == crossVectors(nP, nC)
        turning == cross # <<0, 0, 0>>
    IN  [kind  |-> "hinge",
         pivot |-> edge.v1,
         axis  |-> IF turning THEN normalize(cross)
                   ELSE normalize(subVectors(edge.v2, edge.v1)),
         angle |-> IF turning THEN [sin |-> cross, cos |-> dot(nP, nC)]
                   ELSE [sin |-> <<0, 0, 0>>, cos |-> 1],
         t     |-> t]

\* mutation of HingeTransform: the rotation is by angle, not by t * angle
HingeTransformFullAngle(edge, nP, nC, t) ==
    LET cross == crossVectors(nC, nP)
        turning == cross # <<0, 0, 0>>
    IN  [kind  |-> "hinge",
         pivot |-> edge.v1,
         axis  |-> IF turning THEN normalize(cross)
                   ELSE normalize(subVectors(edge.v2, edge.v1)),
         angle |-> IF turning THEN [sin |-> cross, cos |-> dot(nP, nC)]
                   ELSE [sin |-> <<0, 0, 0>>, cos |-> 1],
         t     |-> ProgressSteps]

\* mutation of HingeTransform: the rotation is by the change of progress
\* since the last run, on top of what was rendered before
HingeTransformDelta(edge, nP, nC, t) ==
    LET cross == crossVectors(nC, nP)
        turning == cross # <<0, 0, 0>>
    IN  [kind  |-> "hinge",
         pivot |-> edge.v1,
         axis  |-> IF turning THEN normalize(cross)
                   ELSE normalize(subVectors(edge.v2, edge.v1)),
         angle |-> IF turning THEN [sin |-> cross, cos |-> dot(nP, nC)]
                   ELSE [sin |-> <<0, 0, 0>>, cos |-> 1],
         t     |-> t - unfoldProgress]

\* the local transform t2 * r * t1 of a non-root node
HingeTransform(edge, nP, nC, t) ==
    LET cross == crossVectors(nC, nP)
        \* sinAngle > 1e-6: the directions are integer vectors, so their
        \* cross product is zero or at least 1 / (|nC| |nP|) in sine
        turning == cross # <<0, 0, 0>>
    IN  [kind  |-> "hinge",
         pivot |-> edge.v1,
         axis  |-> IF turning THEN normalize(cross)
                   ELSE normalize(subVectors(edge.v2, edge.v1)),
         angle |-> IF turning THEN [sin |-> cross, cos |-> dot(nP, nC)]
                   ELSE [sin |-> <<0, 0, 0>>, cos |-> 1],
         t     |-> t]

\* t2 * r * t1 is the identity matrix exactly when the rotation angle
\* t * angle is 0: makeRotationAxis(axis, 0) is the identity, and the two
\* translations cancel
IsIdentity(local) == local.t = 0 \/ local.angle.sin = <<0, 0, 0>>

\* currentMatrix.multiply(localTransform)
multiply(m, local) == IF IsIdentity(local) THEN m ELSE Append(m, local)

(* The Matrix4 objects live in out.cells, in order of creation; a matrix    *)
(* argument and an entry of the transforms map are positions in out.cells.  *)

\* mutation of Clone: currentMatrix is the parentMatrix object itself
CloneAlias(out, a) == [out |-> out, at |-> a]

\* parentMatrix.clone(): a new object with the elements of the object at a
Clone(out, a) ==
    [out |-> [out EXCEPT !.cells = Append(@, out.cells[a])],
     at  |-> Len(out.cells) + 1]

\* transforms.set(faceId, currentMatrix); out.order is the insertion order
\* of the keys, which a Map keeps
MapSet(out, faceId, at) ==
    [out EXCEPT !.map = [f \in DOMAIN out.map \cup {faceId} |->
                           IF f = faceId THEN at ELSE out.map[f]],
                !.order = IF faceId \in DOMAIN out.map THEN @ ELSE Append(@, faceId)]

\* the parentMatrix argument of a call, as it is when it is passed in
Called(out, a) ==
    [out EXCEPT !.calls = Append(@, [at |-> a, before |-> out.cells[a]])]

RECURSIVE computeTransforms(_, _, _, _, _, _, _)
RECURSIVE TransformNode(_, _, _, _, _, _)
RECURSIVE SetAndDescend(_, _, _, _, _, _, _)
RECURSIVE TransformChildren(_, _, _, _, _, _, _)

\* out.threw records the TypeError of reading .normal of a missing face;
\* parentMatrix is the position in out.cells of the matrix passed in
computeTransforms(nodes, edges, faces, n, t, parentMatrix, out) ==
    IF out.threw THEN out
    ELSE TransformNode(nodes, edges, faces, nodes[n], t,
                       Clone(Called(out, parentMatrix), parentMatrix))

\* lines 269-295, with c.at the position of currentMatrix
TransformNode(nodes, edges, faces, node, t, c) ==
    IF node.parentFaceId # Null /\ node.hingeEdge # Null
    THEN IF \/ FaceIndex(faces, node.parentFaceId, 1) = 0
            \/ FaceIndex(faces, node.faceId, 1) = 0
         THEN [c.out EXCEPT !.threw = TRUE]
         ELSE SetAndDescend(nodes, edges, faces, node, t, c.at,
                  [c.out EXCEPT !.cells[c.at] =
                      multiply(@, HingeTransform(
                                      edges[node.hingeEdge],
                                      faces[FaceIndex(faces, node.parentFaceId, 1)].normal,
                                      faces[FaceIndex(faces, node.faceId, 1)].normal,
                                      t))])
    ELSE SetAndDescend(nodes, edges, faces, node, t, c.at, c.out)

\* mutation of SetAndDescend: the entry is set after the children's calls
SetAfterDescend(nodes, edges, faces, node, t, at, out) ==
    MapSet(TransformChildren(nodes, edges, faces, node.children, t, at, out),
           node.faceId, at)

\* lines 297-301
SetAndDescend(nodes, edges, faces, node, t, at, out) ==
    TransformChildren(nodes, edges, faces, node.children, t, at,
                      MapSet(out, node.faceId, at))

TransformChildren(nodes, edges, faces, children, t, currentMatrix, out) ==
    IF children = <<>> THEN out
    ELSE TransformChildren(nodes, edges, faces, Tail(children), t, currentMatrix,
             computeTransforms(nodes, edges, faces, Head(children), t,
                               currentMatrix, out))

----------------------------------------------------------------------------
(* PolyhedronViewer: the two useMemo blocks *)

\* uniqueVertices: the vertex keys of every triangle of every face
RECURSIVE VertexKeys(_)
VertexKeys(tris) ==
    IF tris = <<>> THEN {}
    ELSE {getVertexKey(Head(tris).vertices[i]) : i \in 1 .. 3}
         \cup VertexKeys(Tail(tris))

RECURSIVE AllTriangles(_)
AllTriangles(faces) ==
    IF faces = <<>> THEN <<>>
    ELSE Head(faces).triangles \o AllTriangles(Tail(faces))

\* counts[k] = (counts[k] || 0) + 1 for every k of ks
RECURSIVE Tally(_, _)
Tally(counts, ks) ==
    IF ks = <<>> THEN counts
    ELSE LET k == Head(ks)
             c == IF k \in DOMAIN counts THEN counts[k] ELSE 0
         IN  Tally([x \in DOMAIN counts \cup {k} |->
                      IF x = k THEN c + 1 ELSE counts[x]], Tail(ks))

\* faces.map(getPolygonSides) and faces.map(classifyFace), by position
SidesOfFaces(faces) == [i \in 1 .. Len(faces) |-> getPolygonSides(faces[i])]

TypesOfFaces(faces) == [i \in 1 .. Len(faces) |-> classifyFace(faces[i])]

\* the values the analysis useMemo returns and the stats it reports
AnalysisResult(ex, forest, sides, types) ==
    [polyFaces      |-> ex.polyFaces,
     polyEdges      |-> ex.polyEdges,
     spanningForest |-> forest,
     faceSides      |-> [f \in {ex.polyFaces[i].id : i \in 1 .. Len(ex.polyFaces)} |->
                           sides[FaceIndex(ex.polyFaces, f, 1)]],
     faceTypes      |-> [f \in {ex.polyFaces[i].id : i \in 1 .. Len(ex.polyFaces)} |->
                           types[FaceIndex(ex.polyFaces, f, 1)]],
     stats          |-> [tileCounts     |-> Tally(<<>>, sides),
                         tileTypeCounts |-> Tally(<<>>, types),
                         totalFaces     |-> Len(ex.polyFaces),
                         totalEdges     |-> Len(ex.polyEdges),
                         totalVertices  |-> Cardinality(VertexKeys(AllTriangles(ex.polyFaces)))],
     parent         |-> ex.parent]

AnalysisOf(ex) ==
    AnalysisResult(ex, buildSpanningForest(ex.polyFaces, ex.polyEdges),
                   SidesOfFaces(ex.polyFaces), TypesOfFaces(ex.polyFaces))

\* the analysis useMemo, for the geometry g
Analysis(g) == AnalysisOf(extractPolyhedra(g))

RECURSIVE SumVertices(_)
SumVertices(tris) ==
    IF tris = <<>> THEN <<0, 0, 0>>
    ELSE LET t == Head(tris)
             r == SumVertices(Tail(tris))
         IN  <<t.vertices[1][1] + t.vertices[2][1] + t.vertices[3][1] + r[1],
               t.vertices[1][2] + t.vertices[2][2] + t.vertices[3][2] + r[2],
               t.vertices[1][3] + t.vertices[2][3] + t.vertices[3][3] + r[3]>>

\* the root alignment r * t1: centroid to the origin, normal to (0, 1, 0)
InitialMatrix(faces, rootId) ==
    LET k == FaceIndex(faces, rootId, 1)
    IN  IF k = 0 THEN IdentityMatrix
        ELSE <<[kind |-> "alignNormalToUp", normal |-> faces[k].normal],
               [kind |-> "translateFrom", sum |-> SumVertices(faces[k].triangles),
                count |-> 3 * Len(faces[k].triangles)]>>

\* let initialMatrix = new THREE.Matrix4() ... : a new object holding m
NewMatrix(out, m) ==
    [out EXCEPT !.cells = Append(@, m),
                !.initial = Append(@, [at |-> Len(out.cells) + 1, before |-> m])]

\* mutation of TransformTrees: computeTransforms is called for the first
\* tree only, as on the result of buildSpanningTree of src/geometry.ts
TransformFirstTree(forest, edges, faces, t, k, out) ==
    IF k > Len(forest.forest) \/ k > 1 THEN out
    ELSE computeTransforms(forest.nodes, edges, faces, forest.forest[k], t,
             Len(out.cells) + 1,
             NewMatrix(out, InitialMatrix(faces,
                                forest.nodes[forest.forest[k]].faceId)))

\* the loop over the trees of the forest
RECURSIVE TransformTrees(_, _, _, _, _, _)
TransformTrees(forest, edges, faces, t, k, out) ==
    IF k > Len(forest.forest) \/ out.threw THEN out
    ELSE TransformTrees(forest, edges, faces, t, k + 1,
             computeTransforms(forest.nodes, edges, faces, forest.forest[k], t,
                 Len(out.cells) + 1,
                 NewMatrix(out, InitialMatrix(faces,
                                    forest.nodes[forest.forest[k]].faceId))))

\* the map read through its objects, and every initialMatrix and every
\* parentMatrix argument as it was passed in and as it is in the end
Resolve(out) ==
    [map     |-> [f \in DOMAIN out.map |-> out.cells[out.map[f]]],
     order   |-> out.order,
     threw   |-> out.threw,
     initial |-> [k \in DOMAIN out.initial |->
                    [before |-> out.initial[k].before,
                     after  |-> out.cells[out.initial[k].at]]],
     calls   |-> [k \in DOMAIN out.calls |->
                    [before |-> out.calls[k].before,
                     after  |-> out.cells[out.calls[k].at]]]]

\* the transforms useMemo
Transforms(forest, edges, faces, t) ==
    Resolve(TransformTrees(forest, edges, faces, t, 1,
                [cells |-> <<>>, map |-> <<>>, order |-> <<>>, threw |-> FALSE,
                 initial |-> <<>>, calls |-> <<>>]))

----------------------------------------------------------------------------
(* The geometries handed to the viewer *)

\* a lattice point, from length units to ticks
Pt(x, y, z) == <<x * TicksPerUnit, y * TicksPerUnit, z * TicksPerUnit>>

MeshTetra ==
    <<<<Pt(0, 0, 0), Pt(0, 1, 0), Pt(1, 0, 0)>>,
      <<Pt(0, 0, 0), Pt(1, 0, 0), Pt(0, 0, 1)>>,
      <<Pt(0, 0, 0), Pt(0, 0, 1), Pt(0, 1, 0)>>,
      <<Pt(1, 0, 0), Pt(0, 1, 0), Pt(0, 0, 1)>>>>

MeshCube ==
    <<<<Pt(0, 0, 0), Pt(0, 1, 0), Pt(1, 1, 0)>>,
      <<Pt(0, 0, 0), Pt(1, 1, 0), Pt(1, 0, 0)>>,
      <<Pt(0, 0, 1), Pt(1, 0, 1), Pt(1, 1, 1)>>,
      <<Pt(0, 0, 1), Pt(1, 1, 1), Pt(0, 1, 1)>>,
      <<Pt(0, 0, 0), Pt(1, 0, 0), Pt(1, 0, 1)>>,
      <<Pt(0, 0, 0), Pt(1, 0, 1), Pt(0, 0, 1)>>,
      <<Pt(0, 1, 0), Pt(1, 1, 1), Pt(1, 1, 0)>>,
      <<Pt(0, 1, 0), Pt(0, 1, 1), Pt(1, 1, 1)>>,
      <<Pt(0, 0, 0), Pt(0, 0, 1), Pt(0, 1, 1)>>,
      <<Pt(0, 0, 0), Pt(0, 1, 1), Pt(0, 1, 0)>>,
      <<Pt(1, 0, 0), Pt(1, 1, 0), Pt(1, 1, 1)>>,
      <<Pt(1, 0, 0), Pt(1, 1, 1), Pt(1, 0, 1)>>>>

MeshTetraSplit ==
    <<<<Pt(0, 0, 0), Pt(0, 3, 0), Pt(1, 1, 0)>>,
      <<Pt(0, 3, 0), Pt(3, 0, 0), Pt(1, 1, 0)>>,
      <<Pt(3, 0, 0), Pt(0, 0, 0), Pt(1, 1, 0)>>,
      <<Pt(0, 0, 0), Pt(3, 0, 0), Pt(0, 0, 3)>>,
      <<Pt(0, 0, 0), Pt(0, 0, 3), Pt(0, 3, 0)>>,
      <<Pt(3, 0, 0), Pt(0, 3, 0), Pt(0, 0, 3)>>>>

MeshTwoTetra ==
    <<<<Pt(0, 0, 0), Pt(0, 1, 0), Pt(1, 0, 0)>>,
      <<Pt(0, 0, 0), Pt(1, 0, 0), Pt(0, 0, 1)>>,
      <<Pt(0, 0, 0), Pt(0, 0, 1), Pt(0, 1, 0)>>,
      <<Pt(1, 0, 0), Pt(0, 1, 0), Pt(0, 0, 1)>>,
      <<Pt(2, 2, 2), Pt(2, 3, 2), Pt(3, 2, 2)>>,
      <<Pt(2, 2, 2), Pt(3, 2, 2), Pt(2, 2, 3)>>,
      <<Pt(2, 2, 2), Pt(2, 2, 3), Pt(2, 3, 2)>>,
      <<Pt(3, 2, 2), Pt(2, 3, 2), Pt(2, 2, 3)>>>>

MeshOctahedron ==
    <<<<Pt(1, 0, 0), Pt(0, 1, 0), Pt(0, 0, 1)>>,
      <<Pt(1, 0, 0), Pt(0, 0, 0 - 1), Pt(0, 1, 0)>>,
      <<Pt(1, 0, 0), Pt(0, 0, 1), Pt(0, 0 - 1, 0)>>,
      <<Pt(1, 0, 0), Pt(0, 0 - 1, 0), Pt(0, 0, 0 - 1)>>,
      <<Pt(0 - 1, 0, 0), Pt(0, 0, 1), Pt(0, 1, 0)>>,
      <<Pt(0 - 1, 0, 0), Pt(0, 1, 0), Pt(0, 0, 0 - 1)>>,
      <<Pt(0 - 1, 0, 0), Pt(0, 0 - 1, 0), Pt(0, 0, 1)>>,
      <<Pt(0 - 1, 0, 0), Pt(0, 0, 0 - 1), Pt(0, 0 - 1, 0)>>>>

MeshSquare ==
    <<<<Pt(0, 0, 1), Pt(1, 0, 1), Pt(1, 1, 1)>>,
      <<Pt(0, 0, 1), Pt(1, 1, 1), Pt(0, 1, 1)>>>>

MeshFannedSquare ==
    <<<<Pt(0, 0, 0), Pt(2, 0, 0), Pt(1, 1, 0)>>,
      <<Pt(2, 0, 0), Pt(2, 2, 0), Pt(1, 1, 0)>>,
      <<Pt(2, 2, 0), Pt(0, 2, 0), Pt(1, 1, 0)>>,
      <<Pt(0, 2, 0), Pt(0, 0, 0), Pt(1, 1, 0)>>>>

MeshFan ==
    <<<<Pt(0, 0, 0), Pt(0, 0, 1), Pt(1, 0, 0)>>,
      <<Pt(0, 0, 0), Pt(0, 0, 1), Pt(0, 1, 0)>>,
      <<Pt(0, 0, 0), Pt(0, 0, 1), Pt(0 - 1, 0 - 1, 0)>>>>

MeshTriangle ==
    <<<<Pt(0, 0, 0), Pt(1, 0, 0), Pt(0, 1, 0)>>>>

MeshOpenPyramid ==
    <<<<Pt(0, 0, 0), Pt(2, 0, 0), Pt(1, 1, 1)>>,
      <<Pt(2, 0, 0), Pt(2, 2, 0), Pt(1, 1, 1)>>,
      <<Pt(2, 2, 0), Pt(0, 2, 0), Pt(1, 1, 1)>>,
      <<Pt(0, 2, 0), Pt(0, 0, 0), Pt(1, 1, 1)>>>>

\* three collinear points away from every mesh: a zero-area triangle
DegenerateTri == <<Pt(4, 4, 4), Pt(5, 5, 5), Pt(6, 6, 6)>>

\* a triangle of area 5e-7: its cross product has squared length 1e-12
SliverTri == <<<<0, 0, 0>>, <<100, 0, 0>>, <<0, 100, 0>>>>

RECURSIVE Reverse(_)
Reverse(s) == IF s = <<>> THEN <<>> ELSE Append(Reverse(Tail(s)), Head(s))

\* two triangles whose copies of the vertices of their common edge are
\* 0.00008 apart in x and in y: the keys of the edge are equal
MeshJitteredHinge ==
    <<<<<<99996, 99996, 100000>>, <<199996, 99996, 100000>>, <<99996, 99996, 200000>>>>,
      <<<<100004, 100004, 100000>>, <<100004, 100004, 200000>>, <<100004, 200004, 100000>>>>>>

\* two triangles in one plane and a third one standing on their common edge
MeshFin ==
    <<<<Pt(0, 0, 0), Pt(0, 0, 1), Pt(1, 0, 0)>>,
      <<Pt(0, 0, 1), Pt(0, 0, 0), Pt(0 - 1, 0, 0)>>,
      <<Pt(0, 0, 0), Pt(0, 0, 1), Pt(0, 1, 0)>>>>

\* a strip bent twice by 5.7 degrees along parallel lines: a triangle, a quad
\* of two triangles and a triangle, each edge-adjacent to the next
MeshBentStrip ==
    <<<<<<0, 10000, 0>>, <<100000, 0, 0>>, <<100000, 0, 100000>>>>,
      <<<<100000, 0, 0>>, <<200000, 0, 0>>, <<100000, 0, 100000>>>>,
      <<<<100000, 0, 100000>>, <<200000, 0, 0>>, <<200000, 0, 100000>>>>,
      <<<<200000, 0, 0>>, <<300000, 10000, 0>>, <<200000, 0, 100000>>>>>>

BaseMeshes ==
    {MeshTetra, MeshCube, MeshTetraSplit, MeshTwoTetra, MeshOctahedron, MeshSquare,
     MeshFannedSquare, MeshFan, MeshTriangle, MeshOpenPyramid}

Meshes ==
    BaseMeshes
    \cup {Append(m, DegenerateTri) : m \in BaseMeshes}
    \cup {<<DegenerateTri>> \o MeshTetra,
          <<DegenerateTri, SliverTri>> \o MeshTetra,
          SubSeq(MeshTetra, 1, 2) \o <<DegenerateTri>> \o SubSeq(MeshTetra, 3, 4),
          Append(MeshCube, SliverTri),
          Reverse(MeshCube), MeshJitteredHinge, MeshFin, MeshBentStrip,
          <<>>}

\* the geometry of the first render
InitialMeshes == {MeshTetra, MeshCube}

----------------------------------------------------------------------------
(* The viewer as a state machine *)

NoRun ==
    [done |-> FALSE, others |-> FALSE, geometry |-> <<>>, polyFaces |-> <<>>,
     polyEdges |-> <<>>]

NoForest == [nodes |-> <<>>, forest |-> <<>>]

NoStats ==
    [tileCounts |-> <<>>, tileTypeCounts |-> <<>>, totalFaces |-> 0,
     totalEdges |-> 0, totalVertices |-> 0]

NoTransforms ==
    [map |-> <<>>, order |-> <<>>, threw |-> FALSE, initial |-> <<>>, calls |-> <<>>]

Init ==
    /\ geometry \in InitialMeshes
    /\ unfoldProgress = 0
    /\ polyFaces = <<>>
    /\ polyEdges = <<>>
    /\ spanningForest = NoForest
    /\ faceSides = <<>>
    /\ faceTypes = <<>>
    /\ stats = NoStats
    /\ transforms = NoTransforms
    /\ parent = <<>>
    /\ firstRun = NoRun
    /\ args = <<>>
    /\ result = <<>>
    /\ pc = "viewer"

\* a render in which `geometry` is new: both useMemo blocks run
Analyze(g) ==
    \E a \in {Analysis(g)} :
        /\ geometry' = g
        /\ polyFaces' = a.polyFaces
        /\ polyEdges' = a.polyEdges
        /\ spanningForest' = a.spanningForest
        /\ faceSides' = a.faceSides
        /\ faceTypes' = a.faceTypes
        /\ stats' = a.stats
        /\ parent' = a.parent
        /\ transforms' = Transforms(a.spanningForest, a.polyEdges, a.polyFaces,
                                    unfoldProgress)
        /\ UNCHANGED <<unfoldProgress, args, result, pc>>

\* the first render
Mount ==
    /\ ~firstRun.done
    /\ Analyze(geometry)
    /\ firstRun' = [done |-> TRUE, others |-> FALSE, geometry |-> geometry,
                    polyFaces |-> polyFaces', polyEdges |-> polyEdges']

\* the parent passes a new BufferGeometry
ChangeGeometry(g) ==
    /\ firstRun.done
    /\ Analyze(g)
    /\ firstRun' = [firstRun EXCEPT !.others = @ \/ g # firstRun.geometry]

\* the parent passes a new unfoldProgress: only the transforms useMemo runs
ChangeProgress(p) ==
    /\ firstRun.done
    /\ p # unfoldProgress
    /\ unfoldProgress' = p
    /\ transforms' = Transforms(spanningForest, polyEdges, polyFaces, p)
    /\ UNCHANGED <<geometry, polyFaces, polyEdges, spanningForest, faceSides,
                   faceTypes, stats, parent, firstRun, args, result, pc>>

Next ==
    \/ Mount
    \/ \E g \in Meshes : ChangeGeometry(g)
    \/ \E p \in 0 .. ProgressSteps : ChangeProgress(p)

Spec == Init /\ [][Next]_vars

----------------------------------------------------------------------------
(* buildSpanningForest called on its own, on any small dual graph *)

\* the largest number of PolyFaces and of PolyEdges handed to the call
MaxFaces == 4
MaxEdges == 3

\* a PolyFace / PolyEdge of which only the ids matter to buildSpanningForest
GraphFace(i) == [id |-> i, triangles |-> <<>>, normal |-> <<0, 0, 1>>]

GraphEdge(a, b) == [face1 |-> a, face2 |-> b, v1 |-> Pt(0, 0, 0), v2 |-> Pt(1, 0, 0)]

RECURSIVE SeqsUpTo(_, _)
SeqsUpTo(S, n) ==
    IF n = 0 THEN {<<>>}
    ELSE LET shorter == SeqsUpTo(S, n - 1)
         IN  shorter \cup {Append(q, x) : q \in shorter, x \in S}

\* four faces in a ring 0 - 1 - 3 - 2 - 0, the four edges in any order
RingGraphs ==
    {q \in [1 .. 4 -> {GraphEdge(0, 1), GraphEdge(0, 2), GraphEdge(1, 3),
                       GraphEdge(3, 2)}] :
        \A i, j \in 1 .. 4 : q[i] = q[j] => i = j}

\* faces 0 .. n-1 in list order; edges between two different listed faces,
\* in either orientation, possibly repeated; or a ring of four faces
InitForest ==
    /\ \/ \E n \in 0 .. MaxFaces :
            /\ polyFaces = [i \in 1 .. n |-> GraphFace(i - 1)]
            /\ polyEdges \in SeqsUpTo({GraphEdge(ab[1], ab[2]) :
                                          ab \in {x \in (0 .. n - 1) \X (0 .. n - 1) :
                                                    x[1] # x[2]}},
                                      MaxEdges)
       \/ /\ polyFaces = [i \in 1 .. 4 |-> GraphFace(i - 1)]
          /\ polyEdges \in RingGraphs
    /\ spanningForest = NoForest
    /\ geometry = <<>>
    /\ unfoldProgress = 0
    /\ faceSides = <<>>
    /\ faceTypes = <<>>
    /\ stats = NoStats
    /\ transforms = NoTransforms
    /\ parent = <<>>
    /\ firstRun = NoRun
    /\ args = <<>>
    /\ result = <<>>
    /\ pc = "call"

CallBuildSpanningForest ==
    /\ pc = "call"
    /\ spanningForest' = buildSpanningForest(polyFaces, polyEdges)
    /\ pc' = "done"
    /\ UNCHANGED <<geometry, unfoldProgress, polyFaces, polyEdges, faceSides,
                   faceTypes, stats, transforms, parent, firstRun, args, result>>

NextForest == CallBuildSpanningForest

SpecForest == InitForest /\ [][NextForest]_vars

----------------------------------------------------------------------------
(* Properties of buildSpanningForest (checked under SpecForest) *)

\* the face ids of the tree rooted at node n, parents before children
RECURSIVE TreeFaceIds(_, _)
RECURSIVE ChildrenFaceIds(_, _)
TreeFaceIds(nodes, n) == <<nodes[n].faceId>> \o ChildrenFaceIds(nodes, nodes[n].children)

ChildrenFaceIds(nodes, children) ==
    IF children = <<>> THEN <<>>
    ELSE TreeFaceIds(nodes, Head(children)) \o ChildrenFaceIds(nodes, Tail(children))

\* the face ids of all nodes of all trees
ForestFaceIds(f) == ChildrenFaceIds(f.nodes, f.forest)

NoDuplicates(s) == \A i, j \in DOMAIN s : s[i] = s[j] => i = j

FaceIdSet(faces) == {faces[i].id : i \in DOMAIN faces}

\* the faces linked to a face of S by a path of PolyEdges
RECURSIVE Component(_, _)
Component(S, edges) ==
    LET T == S \cup {edges[i].face2 : i \in {k \in DOMAIN edges : edges[k].face1 \in S}}
               \cup {edges[i].face1 : i \in {k \in DOMAIN edges : edges[k].face2 \in S}}
    IN  IF T = S THEN S ELSE Component(T, edges)

\* the connected components of the dual graph
Components(faces, edges) == {Component({f}, edges) : f \in FaceIdSet(faces)}

\* the nodes that are not roots, over all trees
HingeCount(f) == Len(ForestFaceIds(f)) - Len(f.forest)

\* C1: the node face ids of all trees of the forest contain every PolyFace id
\* exactly once, and no other id
C1_EveryFaceOnce ==
    pc = "done" =>
        /\ NoDuplicates(ForestFaceIds(spanningForest))
        /\ Range(ForestFaceIds(spanningForest)) = FaceIdSet(polyFaces)

\* a forest built for a graph with two parallel edges and two isolated faces
C1_Witness ==
    /\ pc = "done"
    /\ Len(polyFaces) = 4
    /\ \E i, j \in DOMAIN polyEdges :
         /\ i # j
         /\ {polyEdges[i].face1, polyEdges[i].face2}
              = {polyEdges[j].face1, polyEdges[j].face2}
    /\ Cardinality(Components(polyFaces, polyEdges)) = 3

\* C2: the forest has one tree per connected component of the dual graph and
\* |PolyFaces| - |components| nodes that are not roots
C2_OneTreePerComponent ==
    pc = "done" =>
        /\ Len(spanningForest.forest) = Cardinality(Components(polyFaces, polyEdges))
        /\ HingeCount(spanningForest)
             = Len(polyFaces) - Cardinality(Components(polyFaces, polyEdges))
        /\ \A r \in Range(spanningForest.forest) :
             spanningForest.nodes[r].parentFaceId = Null

\* a connected graph of 4 faces: one tree, 3 hinge edges
C2_Witness ==
    /\ pc = "done"
    /\ Len(polyFaces) = 4
    /\ Cardinality(Components(polyFaces, polyEdges)) = 1
    /\ Len(spanningForest.forest) = 1
    /\ HingeCount(spanningForest) = 3

\* the nodes of a tree level by level: the frontier, then the children of
\* the nodes of the frontier in their order
RECURSIVE ChildrenOfAll(_, _)
ChildrenOfAll(nodes, frontier) ==
    IF frontier = <<>> THEN <<>>
    ELSE nodes[Head(frontier)].children \o ChildrenOfAll(nodes, Tail(frontier))

RECURSIVE LevelOrder(_, _)
LevelOrder(nodes, frontier) ==
    IF frontier = <<>> THEN <<>>
    ELSE frontier \o LevelOrder(nodes, ChildrenOfAll(nodes, frontier))

Joins(e, a, b) == {e.face1, e.face2} = {a, b}

\* the root of tree k is the first face of the list that is in no earlier tree
RootIsFirstUnvisited(f, faces, k) ==
    \E i \in DOMAIN faces :
        /\ faces[i].id = f.nodes[f.forest[k]].faceId
        /\ \A j \in 1 .. i - 1 :
              faces[j].id \in Range(ChildrenFaceIds(f.nodes, SubSeq(f.forest, 1, k - 1)))
        /\ faces[i].id \notin Range(ChildrenFaceIds(f.nodes, SubSeq(f.forest, 1, k - 1)))

\* the children of node n hang on edges of ascending position, each on the
\* first edge of the list between its face and the face of n
ChildrenInEdgeOrder(nodes, edges, n) ==
    /\ \A i \in DOMAIN nodes[n].children :
          /\ nodes[nodes[n].children[i]].parentFaceId = nodes[n].faceId
          /\ nodes[nodes[n].children[i]].hingeEdge \in DOMAIN edges
          /\ Joins(edges[nodes[nodes[n].children[i]].hingeEdge],
                   nodes[n].faceId, nodes[nodes[n].children[i]].faceId)
          /\ \A e \in 1 .. nodes[nodes[n].children[i]].hingeEdge - 1 :
                ~Joins(edges[e], nodes[n].faceId, nodes[nodes[n].children[i]].faceId)
    /\ \A i, j \in DOMAIN nodes[n].children :
          i < j => nodes[nodes[n].children[i]].hingeEdge
                     < nodes[nodes[n].children[j]].hingeEdge

\* in the level order of a tree, no node before position i has an edge to
\* the face of a child of the node at position i
ParentIsFirstNeighbour(nodes, edges, order) ==
    \A i \in DOMAIN order : \A c \in Range(nodes[order[i]].children) :
        \A j \in 1 .. i - 1 : \A e \in DOMAIN edges :
            ~Joins(edges[e], nodes[order[j]].faceId, nodes[c].faceId)

\* C20: the roots are taken in list order among the faces not yet in a tree,
\* children are appended in PolyEdge order, and a face becomes the child of
\* the first node, in first-in first-out order, that has an edge to it
C20_BreadthFirstInInputOrder ==
    pc = "done" =>
        /\ \A k \in DOMAIN spanningForest.forest :
              /\ RootIsFirstUnvisited(spanningForest, polyFaces, k)
              /\ ParentIsFirstNeighbour(spanningForest.nodes, polyEdges,
                     LevelOrder(spanningForest.nodes, <<spanningForest.forest[k]>>))
        /\ \A n \in DOMAIN spanningForest.nodes :
              ChildrenInEdgeOrder(spanningForest.nodes, polyEdges, n)
        /\ Len(polyFaces) > 0 =>
              spanningForest.nodes[spanningForest.forest[1]].faceId = polyFaces[1].id

\* a ring of four faces: the face opposite the root is reached from both
\* children of the root, and hangs on the one that was queued first
C20_Witness ==
    /\ pc = "done"
    /\ polyEdges \in RingGraphs
    /\ Len(spanningForest.forest) = 1
    /\ Len(spanningForest.nodes[spanningForest.forest[1]].children) = 2
    /\ \E n \in DOMAIN spanningForest.nodes :
          /\ spanningForest.nodes[n].faceId = 3
          /\ spanningForest.nodes[n].parentFaceId =
                spanningForest.nodes[
                    spanningForest.nodes[spanningForest.forest[1]].children[1]].faceId

\* the nodes that list node n among their children
ParentsOf(nodes, n) == {m \in DOMAIN nodes : n \in Range(nodes[m].children)}

\* C26: a node has no parent face and no hinge edge exactly when it is a
\* root; any other node is a child of exactly one node, whose face is its
\* parent face, and its hinge edge is a PolyEdge between the two faces
C26_ParentAndHingeOfNodes ==
    pc = "done" =>
        \A n \in DOMAIN spanningForest.nodes :
            /\ (spanningForest.nodes[n].parentFaceId = Null)
                  <=> (n \in Range(spanningForest.forest))
            /\ (spanningForest.nodes[n].hingeEdge = Null)
                  <=> (n \in Range(spanningForest.forest))
            /\ n \in Range(spanningForest.forest)
                  => ParentsOf(spanningForest.nodes, n) = {}
            /\ n \notin Range(spanningForest.forest)
                  => /\ Cardinality(ParentsOf(spanningForest.nodes, n)) = 1
                     /\ \A m \in ParentsOf(spanningForest.nodes, n) :
                           spanningForest.nodes[m].faceId
                             = spanningForest.nodes[n].parentFaceId
                     /\ spanningForest.nodes[n].hingeEdge \in DOMAIN polyEdges
                     /\ Joins(polyEdges[spanningForest.nodes[n].hingeEdge],
                              spanningForest.nodes[n].faceId,
                              spanningForest.nodes[n].parentFaceId)

\* a chain of four faces given by edges in both orientations: the last
\* node hangs on the third edge under a node that is not the root
C26_Witness ==
    /\ pc = "done"
    /\ Len(polyFaces) = 4
    /\ Len(spanningForest.forest) = 1
    /\ \E n \in DOMAIN spanningForest.nodes :
          /\ spanningForest.nodes[n].hingeEdge = 3
          /\ polyEdges[3].face1 = spanningForest.nodes[n].faceId
          /\ spanningForest.nodes[n].parentFaceId
               # spanningForest.nodes[spanningForest.forest[1]].faceId

\* the number of levels between the frontier and node n of its tree
RECURSIVE LevelOf(_, _, _, _)
LevelOf(nodes, frontier, n, d) ==
    IF n \in Range(frontier) \/ frontier = <<>> THEN d
    ELSE LevelOf(nodes, ChildrenOfAll(nodes, frontier), n, d + 1)

\* the least number of edges on a path from a face of S to the face b,
\* counted from d; -1 where there is no path
RECURSIVE Distance(_, _, _, _)
Distance(S, b, edges, d) ==
    IF b \in S THEN d
    ELSE IF \A e \in DOMAIN edges : {edges[e].face1, edges[e].face2} \cap S = {}
                                      \/ {edges[e].face1, edges[e].face2} \subseteq S
         THEN 0 - 1
    ELSE Distance(S \cup {edges[e].face1 : e \in {x \in DOMAIN edges : edges[x].face2 \in S}}
                    \cup {edges[e].face2 : e \in {x \in DOMAIN edges : edges[x].face1 \in S}},
                  b, edges, d + 1)

\* C30: the depth of every node of a tree is the least number of PolyEdges
\* between its face and the face of the root
C30_DepthIsDistance ==
    pc = "done" =>
        \A k \in DOMAIN spanningForest.forest :
            \A n \in Range(LevelOrder(spanningForest.nodes, <<spanningForest.forest[k]>>)) :
                LevelOf(spanningForest.nodes, <<spanningForest.forest[k]>>, n, 0)
                    = Distance({spanningForest.nodes[spanningForest.forest[k]].faceId},
                               spanningForest.nodes[n].faceId, polyEdges, 0)

\* three faces joined in a triangle: both other faces are children of the
\* root, although an edge joins them
C30_Witness ==
    /\ pc = "done"
    /\ Len(polyFaces) = 3
    /\ Len(polyEdges) = 3
    /\ Len(spanningForest.forest) = 1
    /\ Len(spanningForest.nodes[spanningForest.forest[1]].children) = 2
    /\ \E e \in DOMAIN polyEdges : Joins(polyEdges[e], 1, 2)

----------------------------------------------------------------------------
(* Properties of the analysis (checked under Spec) *)

Mounted == firstRun.done

\* the triangle at position k of the buffer is skipped at ingestion
Skipped(g, k) ==
    IsDegenerate(subVectors(g[k][3], g[k][2]), subVectors(g[k][1], g[k][2]))

\* the three points at position k of the buffer lie on one line
ZeroArea(g, k) ==
    LET a == subVectors(g[k][2], g[k][1])
        b == subVectors(g[k][3], g[k][1])
    IN  \/ Gcd3(a) = 0
        \/ Gcd3(b) = 0
        \/ crossVectors(divideScalar(a, Gcd3(a)), divideScalar(b, Gcd3(b))) = <<0, 0, 0>>

\* the position in polyFaces of the face that lists the triangle with id i
FaceOfTriangle(faces, i) ==
    CHOOSE f \in DOMAIN faces : \E j \in DOMAIN faces[f].triangles :
                                    faces[f].triangles[j].id = i

\* positions (in the list of kept triangles) linked in one step: an edge key
\* used by exactly these two triangles, normals with dot product > 0.99
LinkedPairs(tris, edgeMap) ==
    {<<edgeMap[k].tris[1], edgeMap[k].tris[2]>> :
        k \in {e \in DOMAIN edgeMap :
                 /\ Len(edgeMap[e].tris) = 2
                 /\ NormalsAligned(tris[edgeMap[e].tris[1]].normal,
                                   tris[edgeMap[e].tris[2]].normal)}}

RECURSIVE LinkClosure(_, _)
LinkClosure(S, pairs) ==
    LET T == S \cup {p[2] : p \in {x \in pairs : x[1] \in S}}
               \cup {p[1] : p \in {x \in pairs : x[2] \in S}}
    IN  IF T = S THEN S ELSE LinkClosure(T, pairs)

\* every edge key is used by exactly two triangles, the triangles hang
\* together, and V - E + F = 2 over the triangles: a closed surface of genus 0
ClosedGenus0(g) ==
    LET tris    == ReadTriangles(g, 1)
        edgeMap == BuildEdgeMap(tris, 1, <<>>)
        adjacent == {<<edgeMap[k].tris[1], edgeMap[k].tris[2]>> : k \in DOMAIN edgeMap}
    IN  /\ Len(tris) > 0
        /\ \A k \in DOMAIN edgeMap : Len(edgeMap[k].tris) = 2
        /\ LinkClosure({1}, adjacent) = DOMAIN tris
        /\ Cardinality(VertexKeys(tris)) - Len(edgeMap) + Len(tris) = 2

\* C3: for a closed genus-0 mesh the displayed statistics satisfy
\* vertices - edges + faces = 2
C3_EulerIsTwo ==
    (Mounted /\ ClosedGenus0(geometry)) =>
        stats.totalVertices - stats.totalEdges + stats.totalFaces = 2

\* C4: two kept triangles are in the same PolyFace exactly when a chain of
\* linked triangles connects them
C4_FacesAreLinkComponents ==
    Mounted =>
        LET tris  == ReadTriangles(geometry, 1)
            pairs == LinkedPairs(tris, BuildEdgeMap(tris, 1, <<>>))
        IN  \A a, b \in DOMAIN tris :
                (FaceOfTriangle(polyFaces, tris[a].id) = FaceOfTriangle(polyFaces, tris[b].id))
                    <=> (b \in LinkClosure({a}, pairs))

\* C5: the triangle lists of the PolyFaces hold every kept triangle of the
\* buffer exactly once, and each triangle is tagged with the id of its face
C5_FacesPartitionTriangles ==
    Mounted =>
        LET tris == AllTriangles(polyFaces)
        IN  /\ NoDuplicates([i \in DOMAIN tris |-> tris[i].id])
            /\ {tris[i].id : i \in DOMAIN tris}
                 = {k - 1 : k \in {x \in DOMAIN geometry : ~Skipped(geometry, x)}}
            /\ \A i \in DOMAIN tris : tris[i].vertices = geometry[tris[i].id + 1]
            /\ \A f \in DOMAIN polyFaces : \A j \in DOMAIN polyFaces[f].triangles :
                 polyFaces[f].triangles[j].faceId = polyFaces[f].id

\* an analysed mesh with a face of four triangles and a skipped triangle
C5_Witness ==
    /\ Mounted
    /\ \E f \in DOMAIN polyFaces : Len(polyFaces[f].triangles) = 4
    /\ \E k \in DOMAIN geometry : Skipped(geometry, k)

\* C6: a zero-area triangle appended to a mesh raises no error, is in no
\* PolyFace, and leaves the face, edge and vertex counts of the mesh unchanged
C6_AppendedDegenerateIgnored ==
    (Mounted /\ Len(geometry) > 0 /\ ZeroArea(geometry, Len(geometry))) =>
        LET base == Analysis(SubSeq(geometry, 1, Len(geometry) - 1)).stats
            tris == AllTriangles(polyFaces)
        IN  /\ ~transforms.threw
            /\ \A i \in DOMAIN tris : tris[i].id # Len(geometry) - 1
            /\ stats.totalFaces = base.totalFaces
            /\ stats.totalEdges = base.totalEdges
            /\ stats.totalVertices = base.totalVertices

\* the cube of 12 triangles with a zero-area triangle appended, analysed
C6_Witness ==
    /\ Mounted
    /\ Len(geometry) = 13
    /\ ZeroArea(geometry, 13)
    /\ stats.totalFaces = 6

----------------------------------------------------------------------------
(* getPolygonSides and classifyFace called on their own, on any small face *)

\* the largest number of triangles of the face handed to the call
MaxFaceTris == 4

\* an equilateral and a nearly equilateral triangle, a tall and a short
\* isosceles one, a triangle cut in three around an inner point, a unit
\* square and a 2 x 1 rectangle cut in two, and a triangle next to the square
\* (in length units), and a needle whose short edge of 0.00004 joins two
\* vertices with the same key
TrianglePool ==
    <<<<Pt(1, 0, 0), Pt(0, 1, 0), Pt(0, 0, 1)>>,
      <<Pt(0, 0, 9), Pt(0, 2, 12), Pt(2, 3, 9)>>,
      <<Pt(0, 0, 5), Pt(2, 0, 5), Pt(1, 3, 5)>>,
      <<Pt(0, 0, 7), Pt(2, 2, 7), Pt(3, 0 - 1, 7)>>,
      <<Pt(0, 0, 2), Pt(0, 3, 2), Pt(1, 1, 2)>>,
      <<Pt(0, 3, 2), Pt(3, 0, 2), Pt(1, 1, 2)>>,
      <<Pt(3, 0, 2), Pt(0, 0, 2), Pt(1, 1, 2)>>,
      <<Pt(0, 0, 0), Pt(1, 0, 0), Pt(1, 1, 0)>>,
      <<Pt(0, 0, 0), Pt(1, 1, 0), Pt(0, 1, 0)>>,
      <<Pt(5, 0, 0), Pt(7, 0, 0), Pt(7, 1, 0)>>,
      <<Pt(5, 0, 0), Pt(7, 1, 0), Pt(5, 1, 0)>>,
      <<Pt(1, 0, 0), Pt(2, 0, 0), Pt(1, 1, 0)>>,
      <<<<900000, 900000, 900000>>, <<900004, 900000, 900000>>,
        <<900000, 1000000, 900000>>>>>>

\* the Triangle object built from pool entry k
PoolTriangle(k) ==
    [id |-> k - 1, vertices |-> TrianglePool[k],
     normal |-> TriNormal(subVectors(TrianglePool[k][3], TrianglePool[k][2]),
                          subVectors(TrianglePool[k][1], TrianglePool[k][2])),
     faceId |-> 0]

RECURSIVE Ascending(_)
Ascending(S) ==
    IF S = {} THEN <<>>
    ELSE LET m == CHOOSE x \in S : \A y \in S : x <= y
         IN  <<m>> \o Ascending(S \ {m})

\* the PolyFace with id 0 whose triangle list is pool entry `first` followed
\* by the other entries of S
PoolFace(S, first) ==
    LET order == <<first>> \o Ascending(S \ {first})
    IN  [id |-> 0, triangles |-> [i \in DOMAIN order |-> PoolTriangle(order[i])],
         normal |-> PoolTriangle(first).normal]

InitClassify ==
    /\ \/ polyFaces = <<[id |-> 0, triangles |-> <<>>, normal |-> <<0, 0, 1>>]>>
       \/ \E S \in SUBSET DOMAIN TrianglePool :
            /\ Cardinality(S) \in 1 .. MaxFaceTris
            /\ \E first \in S : polyFaces = <<PoolFace(S, first)>>
    /\ polyEdges = <<>>
    /\ spanningForest = NoForest
    /\ geometry = <<>>
    /\ unfoldProgress = 0
    /\ faceSides = <<>>
    /\ faceTypes = <<>>
    /\ stats = NoStats
    /\ transforms = NoTransforms
    /\ parent = <<>>
    /\ firstRun = NoRun
    /\ args = <<>>
    /\ result = <<>>
    /\ pc = "call"

\* const sides = getPolygonSides(pf); const type = classifyFace(pf)
CallClassifyFace ==
    /\ pc = "call"
    /\ faceSides' = [f \in {polyFaces[1].id} |-> getPolygonSides(polyFaces[1])]
    /\ faceTypes' = [f \in {polyFaces[1].id} |-> classifyFace(polyFaces[1])]
    /\ pc' = "done"
    /\ UNCHANGED <<geometry, unfoldProgress, polyFaces, polyEdges, spanningForest,
                   stats, transforms, parent, firstRun, args, result>>

NextClassify == CallClassifyFace

SpecClassify == InitClassify /\ [][NextClassify]_vars

----------------------------------------------------------------------------
(* Properties of the classification *)

\* the triangle list of pf rearranged by the permutation p of its positions
Permuted(pf, p) == [pf EXCEPT !.triangles = [i \in DOMAIN pf.triangles |-> pf.triangles[p[i]]]]

\* C8: for every PolyFace of the analysed mesh, no rearrangement of its
\* triangle list changes the side count or the TileType (checked under Spec)
C8_OrderIndependent ==
    Mounted =>
        \A f \in DOMAIN polyFaces :
            \A p \in Permutations(DOMAIN polyFaces[f].triangles) :
                /\ getPolygonSides(Permuted(polyFaces[f], p)) = faceSides[polyFaces[f].id]
                /\ classifyFace(Permuted(polyFaces[f], p)) = faceTypes[polyFaces[f].id]

\* the edge keys that exactly one triangle of the face uses
BoundaryKeys(pf) ==
    LET uses == FaceEdgeKeys(pf.triangles)
    IN  {k \in Range(uses) : Cardinality({i \in DOMAIN uses : uses[i] = k}) = 1}

\* the criteria of the decision list, on the squares q1 <= q2 <= q3 of the
\* edge lengths s1 <= s2 <= s3
AllSidesNear(q) == 9025 * q[3] < 10000 * q[1]

Pythagorean(q) == 10 * Abs(q[1] + q[2] - q[3]) < q[3]

ShortSidesNear(q) ==
    LET B == 400 * (q[1] + q[2]) - q[3]
    IN  B < 0 \/ B * B < 640000 * q[1] * q[2]

LongSidesNear(q) == 9025 * q[3] < 10000 * q[2]

DecisionList(q) ==
    IF AllSidesNear(q) THEN "Equilateral Triangle"
    ELSE IF Pythagorean(q) THEN "Right Triangle"
    ELSE IF ShortSidesNear(q) \/ LongSidesNear(q)
         THEN IF LongSidesNear(q) /\ 100 * q[3] > 144 * q[1]
              THEN "Isosceles Triangle (Tall)"
              ELSE "Isosceles Triangle (Short)"
    ELSE "Equilateral Triangle"

\* the edge vectors of the triangles, in the order of FaceEdgeKeys
RECURSIVE FaceEdgeVectors(_)
FaceEdgeVectors(tris) ==
    IF tris = <<>> THEN <<>>
    ELSE <<subVectors(Head(tris).vertices[1], Head(tris).vertices[2]),
           subVectors(Head(tris).vertices[2], Head(tris).vertices[3]),
           subVectors(Head(tris).vertices[3], Head(tris).vertices[1])>>
         \o FaceEdgeVectors(Tail(tris))

\* the positions in FaceEdgeKeys of the edges that one triangle only uses
BoundaryPositions(uses) ==
    {i \in DOMAIN uses : Cardinality({j \in DOMAIN uses : uses[j] = uses[i]}) = 1}

\* the squares of the lengths of three edge vectors, divided by the square
\* of the common factor g of the vectors
EdgeSquares(e, g) ==
    <<lengthSq(divideScalar(e[1], g)), lengthSq(divideScalar(e[2], g)),
      lengthSq(divideScalar(e[3], g))>>

ThreeVectors(vecs, pos) == <<vecs[pos[1]], vecs[pos[2]], vecs[pos[3]]>>

\* the squared lengths of the edges of a face with three boundary edges
BoundarySquares(pf) ==
    LET e == ThreeVectors(FaceEdgeVectors(pf.triangles),
                          Ascending(BoundaryPositions(FaceEdgeKeys(pf.triangles))))
    IN  EdgeSquares(e, Gcd(Gcd(Gcd3(e[1]), Gcd3(e[2])), Gcd3(e[3])))

\* C9: every analysed face of side count 3 has the type that the decision
\* list equilateral > right > isosceles (tall / short) > equilateral fallback
\* gives for the sorted lengths of the three edges of the face
C9_TriangleDecisionList ==
    Mounted =>
        \A f \in DOMAIN polyFaces :
            Cardinality(BoundaryKeys(polyFaces[f])) = 3 =>
                faceTypes[polyFaces[f].id]
                    = DecisionList(SortAscending(BoundarySquares(polyFaces[f])))

\* under SpecClassify: the decision list gives the type of every face of
\* side count 3 when it is applied to the lengths that classifyFace measures,
\* those of the first triangle of the face
FirstTriangleDecisionList ==
    (pc = "done" /\ Cardinality(BoundaryKeys(polyFaces[1])) = 3) =>
        faceTypes[0] = DecisionList(SortAscending(SquaredLengths(polyFaces[1].triangles[1])))

\* under SpecClassify: the decision list on the edges of the face itself
\* gives the type of every face that is a single triangle
SingleTriangleDecisionList ==
    (pc = "done" /\ Len(polyFaces[1].triangles) = 1) =>
        faceTypes[0] = DecisionList(SortAscending(BoundarySquares(polyFaces[1])))

\* under SpecClassify: a right isosceles triangle, which meets the criteria
\* (b) and (c), classified as (b)
RightIsoscelesClassified ==
    /\ pc = "done"
    /\ Len(polyFaces[1].triangles) = 1
    /\ LET q == SortAscending(SquaredLengths(polyFaces[1].triangles[1]))
       IN  ~AllSidesNear(q) /\ Pythagorean(q) /\ ShortSidesNear(q)
    /\ faceTypes[0] = "Right Triangle"

\* C10: side count 4 gives 'Small Square', 6 'Hexagon', 8 'Octagon', and any
\* count other than 3, 4, 6, 8 gives 'Other'
C10_SideCountTable ==
    pc = "done" =>
        LET n == Cardinality(BoundaryKeys(polyFaces[1]))
        IN  /\ faceSides[0] = n
            /\ n = 4 => faceTypes[0] = "Small Square"
            /\ n = 6 => faceTypes[0] = "Hexagon"
            /\ n = 8 => faceTypes[0] = "Octagon"
            /\ n \notin {3, 4, 6, 8} => faceTypes[0] = "Other"

\* a face of four triangles with eight boundary edges, classified
C10_Witness ==
    /\ pc = "done"
    /\ Len(polyFaces[1].triangles) = 4
    /\ Cardinality(BoundaryKeys(polyFaces[1])) = 8
    /\ faceTypes[0] = "Octagon"

\* the edge keys that exactly one triangle of the list has among its edges
KeysOfOneTriangle(tris) ==
    {k \in Range(FaceEdgeKeys(tris)) :
        Cardinality({j \in DOMAIN tris : k \in Range(TriEdgeKeys(tris[j]))}) = 1}

\* C27: getPolygonSides returns the number of distinct edge keys that
\* exactly one triangle of the face uses
C27_SidesAreKeysOfOneTriangle ==
    pc = "done" =>
        faceSides[polyFaces[1].id]
            = Cardinality(KeysOfOneTriangle(polyFaces[1].triangles))

----------------------------------------------------------------------------
(* computeTransforms on its own: the transforms useMemo on the forest, the  *)
(* PolyEdges and a PolyFace map of an analysed mesh, first at one progress  *)
(* value and then again at others.  The PolyFace map is that of the mesh,   *)
(* or lacks one face.                                                       *)

\* a triangle given twice, the second time with the opposite winding
MeshTwoSided ==
    <<<<Pt(0, 0, 0), Pt(1, 0, 0), Pt(0, 1, 0)>>,
      <<Pt(0, 0, 0), Pt(0, 1, 0), Pt(1, 0, 0)>>>>

TransformMeshes ==
    {MeshTetra, MeshCube, MeshTetraSplit, MeshTwoTetra, MeshOctahedron,
     MeshOpenPyramid, MeshTwoSided, MeshTriangle}

\* the list without its element at position k (the whole list for k = 0)
Without(faces, k) ==
    [i \in 1 .. Len(faces) - (IF k = 0 THEN 0 ELSE 1) |->
        IF k = 0 \/ i < k THEN faces[i] ELSE faces[i + 1]]

InitTransforms ==
    /\ \E g \in TransformMeshes : \E a \in {Analysis(g)} :
         \E drop \in 0 .. Len(a.polyFaces) :
            /\ geometry = g
            /\ polyFaces = Without(a.polyFaces, drop)
            /\ polyEdges = a.polyEdges
            /\ spanningForest = a.spanningForest
            /\ args = [polyFaces |-> a.polyFaces, drop |-> drop]
    /\ unfoldProgress \in 0 .. ProgressSteps
    /\ faceSides = <<>>
    /\ faceTypes = <<>>
    /\ stats = NoStats
    /\ transforms = NoTransforms
    /\ parent = <<>>
    /\ firstRun = NoRun
    /\ result = <<>>
    /\ pc = "call"

\* the first run of the transforms useMemo; result keeps what it returned
CallComputeTransforms ==
    /\ pc = "call"
    /\ \E m \in {Transforms(spanningForest, polyEdges, polyFaces, unfoldProgress)} :
         /\ transforms' = m
         /\ result' = [unfoldProgress |-> unfoldProgress, transforms |-> m]
    /\ pc' = "done"
    /\ UNCHANGED <<geometry, unfoldProgress, polyFaces, polyEdges, spanningForest,
                   faceSides, faceTypes, stats, parent, firstRun, args>>

\* unfoldProgress changes: the useMemo runs again
Recompute(p) ==
    /\ pc \in {"done", "again"}
    /\ p # unfoldProgress
    /\ unfoldProgress' = p
    /\ transforms' = Transforms(spanningForest, polyEdges, polyFaces, p)
    /\ pc' = "again"
    /\ UNCHANGED <<geometry, polyFaces, polyEdges, spanningForest, faceSides,
                   faceTypes, stats, parent, firstRun, args, result>>

NextTransforms ==
    \/ CallComputeTransforms
    \/ \E p \in 0 .. ProgressSteps : Recompute(p)

SpecTransforms == InitTransforms /\ [][NextTransforms]_vars

----------------------------------------------------------------------------
(* Properties of the transforms *)

\* the transforms useMemo has run on the complete PolyFace map
Transformed == pc \in {"done", "again"} /\ args.drop = 0

\* C11: at progress 0 every face of a tree has the matrix that was passed in
\* for the root of the tree
C11_FoldedAtZero ==
    (Transformed /\ unfoldProgress = 0) =>
        /\ ~transforms.threw
        /\ \A k \in DOMAIN spanningForest.forest :
              \A f \in Range(TreeFaceIds(spanningForest.nodes, spanningForest.forest[k])) :
                 /\ f \in DOMAIN transforms.map
                 /\ transforms.map[f] = transforms.initial[k].before

\* back at progress 0 after another value: a tree of several faces whose root
\* has an alignment matrix
C11_Witness ==
    /\ Transformed
    /\ pc = "again"
    /\ unfoldProgress = 0
    /\ \E k \in DOMAIN spanningForest.forest :
          /\ Len(TreeFaceIds(spanningForest.nodes, spanningForest.forest[k])) > 3
          /\ transforms.initial[k].before # IdentityMatrix
          /\ \A f \in Range(TreeFaceIds(spanningForest.nodes, spanningForest.forest[k])) :
                transforms.map[f] = transforms.initial[k].before

\* the directions v and w are the same
SameDirection(v, w) == crossVectors(v, w) = <<0, 0, 0>> /\ dot(v, w) > 0

\* the direction that one factor of a matrix gives to the direction v, and
\* <<0, 0, 0>> where the factor as recorded does not determine it.  A hinge at
\* full angle turns v, at right angles to the axis, into
\* v cos + (axis x v) sin; the root alignment turns its normal into (0, 1, 0)
TurnedBy(factor, v) ==
    IF factor.kind = "translateFrom" THEN v
    ELSE IF factor.kind = "alignNormalToUp"
         THEN IF SameDirection(v, factor.normal) THEN <<0, 1, 0>>
              ELSE IF SameDirection(v, subVectors(<<0, 0, 0>>, factor.normal))
                   THEN <<0, 0 - 1, 0>>
              ELSE <<0, 0, 0>>
    ELSE IF factor.t # ProgressSteps \/ dot(factor.axis, v) # 0 THEN <<0, 0, 0>>
    ELSE normalize(
             <<v[1] * factor.angle.cos
                 + crossVectors(factor.axis, v)[1] * Gcd3(factor.angle.sin),
               v[2] * factor.angle.cos
                 + crossVectors(factor.axis, v)[2] * Gcd3(factor.angle.sin),
               v[3] * factor.angle.cos
                 + crossVectors(factor.axis, v)[3] * Gcd3(factor.angle.sin)>>)

\* the factors 1 .. k of the matrix m applied to v, the last one first
RECURSIVE TurnedThrough(_, _, _)
TurnedThrough(m, k, v) ==
    IF k = 0 THEN v ELSE TurnedThrough(m, k - 1, TurnedBy(m[k], v))

\* the normal of the face with id f after its transform
TransformedNormal(f) ==
    TurnedThrough(transforms.map[f], Len(transforms.map[f]),
                  polyFaces[FaceIndex(polyFaces, f, 1)].normal)

\* C12: at progress 1 the transformed normals of the two faces of every
\* hinge are parallel
C12_FlatAtOne ==
    (Transformed /\ unfoldProgress = ProgressSteps) =>
        \A n \in DOMAIN spanningForest.nodes :
            spanningForest.nodes[n].hingeEdge # Null =>
                /\ TransformedNormal(spanningForest.nodes[n].faceId) # <<0, 0, 0>>
                /\ TransformedNormal(spanningForest.nodes[n].parentFaceId) # <<0, 0, 0>>
                /\ crossVectors(TransformedNormal(spanningForest.nodes[n].faceId),
                                TransformedNormal(spanningForest.nodes[n].parentFaceId))
                     = <<0, 0, 0>>

\* unfolded: a face two hinges away from its root, turned twice, whose
\* normal differs from that of its parent in the mesh
C12_Witness ==
    /\ Transformed
    /\ unfoldProgress = ProgressSteps
    /\ \E n \in DOMAIN spanningForest.nodes :
          /\ spanningForest.nodes[n].hingeEdge # Null
          /\ Len(transforms.map[spanningForest.nodes[n].faceId]) >= 4
          /\ ~SameDirection(
                 polyFaces[FaceIndex(polyFaces, spanningForest.nodes[n].faceId, 1)].normal,
                 polyFaces[FaceIndex(polyFaces, spanningForest.nodes[n].parentFaceId, 1)].normal)
          /\ TransformedNormal(spanningForest.nodes[n].faceId) = <<0, 1, 0>>

\* the PolyFace map lacks the face of node n or, for a node with a hinge,
\* the face of its parent
Unresolved(n) ==
    /\ spanningForest.nodes[n].parentFaceId # Null
    /\ \/ FaceIndex(polyFaces, spanningForest.nodes[n].parentFaceId, 1) = 0
       \/ FaceIndex(polyFaces, spanningForest.nodes[n].faceId, 1) = 0

\* the positions of the nodes from n up to its root
RECURSIVE UpToRoot(_)
UpToRoot(n) ==
    IF spanningForest.nodes[n].parentFaceId = Null THEN {n}
    ELSE {n} \cup UpToRoot(CHOOSE m \in DOMAIN spanningForest.nodes :
                               \E i \in DOMAIN spanningForest.nodes[m].children :
                                   spanningForest.nodes[m].children[i] = n)

\* C13: with a face missing from the PolyFace map no exception is raised,
\* the nodes that cannot be resolved and the nodes below them get no
\* transform, and every other node gets one
C13_MissingFaceSkipped ==
    pc \in {"done", "again"} =>
        /\ ~transforms.threw
        /\ \A n \in DOMAIN spanningForest.nodes :
              (spanningForest.nodes[n].faceId \in DOMAIN transforms.map)
                  <=> (\A m \in UpToRoot(n) : ~Unresolved(m))

\* C18: a run of the transforms useMemo changes no PolyFace, no PolyEdge
\* and no HingeNode, and every matrix passed as parentMatrix holds in the
\* end the elements it held when it was passed
C18_OnlyTransformsWritten ==
    [][/\ polyFaces' = polyFaces
       /\ polyEdges' = polyEdges
       /\ spanningForest' = spanningForest
       /\ \A k \in DOMAIN transforms'.calls :
             transforms'.calls[k].after = transforms'.calls[k].before]_vars

\* a recomputation with a node whose matrix differs from the one passed in
C18_Witness ==
    /\ pc = "again"
    /\ unfoldProgress > 0
    /\ ~transforms.threw
    /\ Len(transforms.calls) > Len(transforms.initial)
    /\ \E f \in DOMAIN transforms.map :
          \A k \in DOMAIN transforms.initial :
              transforms.map[f] # transforms.initial[k].before

ChildrenReversed(f) ==
    [f EXCEPT !.nodes = [n \in DOMAIN f.nodes |->
                           [f.nodes[n] EXCEPT !.children = Reverse(@)]]]

\* the matrix of the child node c is the matrix of its parent node n
\* multiplied on the right by the hinge transform of c
ComposedOnParent(nodes, n, c) ==
    transforms.map[nodes[c].faceId] =
        multiply(transforms.map[nodes[n].faceId],
                 HingeTransform(polyEdges[nodes[c].hingeEdge],
                                polyFaces[FaceIndex(polyFaces, nodes[n].faceId, 1)].normal,
                                polyFaces[FaceIndex(polyFaces, nodes[c].faceId, 1)].normal,
                                unfoldProgress))

\* C21: the map is filled in pre-order, every child's matrix is its parent's
\* matrix times its own hinge transform, and the order of the children of a
\* node changes no matrix
C21_PreOrderComposition ==
    Transformed =>
        /\ transforms.order = ForestFaceIds(spanningForest)
        /\ \A n \in DOMAIN spanningForest.nodes :
              \A c \in Range(spanningForest.nodes[n].children) :
                  ComposedOnParent(spanningForest.nodes, n, c)
        /\ Transforms(ChildrenReversed(spanningForest), polyEdges, polyFaces,
                      unfoldProgress).map = transforms.map

\* a tree with a node of several children and a grandchild, partly unfolded
C21_Witness ==
    /\ Transformed
    /\ unfoldProgress > 0
    /\ \E n \in DOMAIN spanningForest.nodes :
          /\ Len(spanningForest.nodes[n].children) >= 2
          /\ \E c \in Range(spanningForest.nodes[n].children) :
                /\ spanningForest.nodes[c].children # <<>>
                /\ transforms.map[spanningForest.nodes[c].faceId]
                     # transforms.map[spanningForest.nodes[n].faceId]

\* the hinge of a node with parent normal nP and own normal nC, at the
\* current progress: without a cross product the child has the matrix of its
\* parent and the angle between the normals is 0; with one, the last factor
\* of the child's matrix turns about the cross product by t * atan2
AxisAndAngleAsStated(node, nP, nC) ==
    IF crossVectors(nC, nP) = <<0, 0, 0>>
    THEN /\ transforms.map[node.faceId] = transforms.map[node.parentFaceId]
         /\ dot(nC, nP) > 0
    ELSE unfoldProgress > 0 =>
           /\ transforms.map[node.faceId] # <<>>
           /\ transforms.map[node.faceId][Len(transforms.map[node.faceId])]
                = [kind  |-> "hinge",
                   pivot |-> polyEdges[node.hingeEdge].v1,
                   axis  |-> normalize(crossVectors(nC, nP)),
                   angle |-> [sin |-> crossVectors(nC, nP), cos |-> dot(nP, nC)],
                   t     |-> unfoldProgress]

\* C25: where the cross product of the two normals of a hinge vanishes the
\* rotation is by 0 and the angle between the normals is 0; elsewhere the
\* axis is the cross product and the angle atan2(|nC x nP|, nP . nC)
C25_ZeroCrossIsZeroAngle ==
    Transformed =>
        \A n \in DOMAIN spanningForest.nodes :
            spanningForest.nodes[n].hingeEdge # Null =>
                AxisAndAngleAsStated(
                    spanningForest.nodes[n],
                    polyFaces[FaceIndex(polyFaces, spanningForest.nodes[n].parentFaceId, 1)].normal,
                    polyFaces[FaceIndex(polyFaces, spanningForest.nodes[n].faceId, 1)].normal)

----------------------------------------------------------------------------
(* Skipped triangles anywhere in the buffer (under Spec) *)

\* the buffer without the triangles that the ingestion loop skips
RECURSIVE KeptOf(_, _)
KeptOf(g, k) ==
    IF k > Len(g) THEN <<>>
    ELSE (IF Skipped(g, k) THEN <<>> ELSE <<g[k]>>) \o KeptOf(g, k + 1)

\* the triangles of a face, as their vertices
FaceMembers(face) == {face.triangles[j].vertices : j \in DOMAIN face.triangles}

Grouping(faces) == {FaceMembers(faces[f]) : f \in DOMAIN faces}

\* a PolyEdge as its endpoints and the triangles of its two faces
Linking(faces, edges) ==
    {[v1 |-> edges[e].v1, v2 |-> edges[e].v2,
      face1 |-> {FaceMembers(faces[f]) : f \in {x \in DOMAIN faces :
                                                  faces[x].id = edges[e].face1}},
      face2 |-> {FaceMembers(faces[f]) : f \in {x \in DOMAIN faces :
                                                  faces[x].id = edges[e].face2}}] :
        e \in DOMAIN edges}

SameAsWithout(clean) ==
    /\ Grouping(polyFaces) = Grouping(clean.polyFaces)
    /\ Linking(polyFaces, polyEdges) = Linking(clean.polyFaces, clean.polyEdges)

\* C28: the PolyFaces and PolyEdges are those of the buffer without its
\* skipped triangles, every PolyFace id is the id of one of its triangles,
\* and no two PolyFaces have the same id
C28_SkippedAnywhereIgnored ==
    Mounted =>
        /\ SameAsWithout(extractPolyhedra(KeptOf(geometry, 1)))
        /\ \A f \in DOMAIN polyFaces :
              \E j \in DOMAIN polyFaces[f].triangles :
                  polyFaces[f].triangles[j].id = polyFaces[f].id
        /\ \A f, h \in DOMAIN polyFaces :
              polyFaces[f].id = polyFaces[h].id => f = h

----------------------------------------------------------------------------
(* Every face gets a transform (under Spec) *)

\* C29: the keys of the transforms map are the ids of the PolyFaces, one
\* key for each PolyFace, and computing them raises no error
C29_OneTransformPerFace ==
    Mounted =>
        /\ DOMAIN transforms.map = FaceIdSet(polyFaces)
        /\ Cardinality(DOMAIN transforms.map) = Len(polyFaces)
        /\ ~transforms.threw

\* two tetrahedra, partly unfolded: two trees and eight transforms
C29_Witness ==
    /\ Mounted
    /\ unfoldProgress > 0
    /\ Len(spanningForest.forest) = 2
    /\ Len(polyFaces) = 8
    /\ Cardinality(DOMAIN transforms.map) = 8
    /\ \A r \in Range(spanningForest.forest) :
          spanningForest.nodes[r].children # <<>>

----------------------------------------------------------------------------
(* Edges that join nothing (under Spec) *)

\* the entries of the edge map used by exactly two triangles
UsedTwice(edgeMap) == SelectSeq(edgeMap, LAMBDA x : Len(x.tris) = 2)

\* of these, the entries whose two triangles have aligned normals
Merging(tris, edgeMap) ==
    SelectSeq(edgeMap, LAMBDA x : /\ Len(x.tris) = 2
                                  /\ NormalsAligned(tris[x.tris[1]].normal,
                                                    tris[x.tris[2]].normal))

\* the faces and PolyEdges are those got without the edges used once or
\* more than twice, and the faces those got with the merging edges alone
WithoutOtherEdges(tris, edgeMap) ==
    /\ ExtractMerged(tris, UsedTwice(edgeMap)).polyFaces = polyFaces
    /\ ExtractMerged(tris, UsedTwice(edgeMap)).polyEdges = polyEdges
    /\ ExtractMerged(tris, Merging(tris, edgeMap)).polyFaces = polyFaces

EdgeMapOf(tris) == BuildEdgeMap(tris, 1, <<>>)

\* C23: an edge key used by one or by more than two triangles unites no
\* triangles and yields no PolyEdge, and an edge key of two triangles whose
\* normals are not aligned unites no triangles: the analysis gives what it
\* gives without these edges
C23_OtherEdgesJoinNothing ==
    Mounted => WithoutOtherEdges(ReadTriangles(geometry, 1),
                                 EdgeMapOf(ReadTriangles(geometry, 1)))

\* the first two triangles of an edge used by three triangles have aligned
\* normals
FinEdge(tris, edgeMap) ==
    \E k \in DOMAIN edgeMap :
        /\ Len(edgeMap[k].tris) = 3
        /\ NormalsAligned(tris[edgeMap[k].tris[1]].normal,
                          tris[edgeMap[k].tris[2]].normal)

\* two triangles in one plane with a third on their common edge: three
\* faces, no PolyEdge, three trees
C23_Witness ==
    /\ Mounted
    /\ FinEdge(ReadTriangles(geometry, 1), EdgeMapOf(ReadTriangles(geometry, 1)))
    /\ Len(polyFaces) = 3
    /\ polyEdges = <<>>
    /\ Len(spanningForest.forest) = 3

\* C24: the normal of a PolyFace is the normal of one of its triangles, and
\* the normal of every triangle of the face is aligned with it
C24_MembersShareFaceNormal ==
    Mounted =>
        \A f \in DOMAIN polyFaces :
            /\ \E j \in DOMAIN polyFaces[f].triangles :
                  polyFaces[f].triangles[j].normal = polyFaces[f].normal
            /\ \A j \in DOMAIN polyFaces[f].triangles :
                  NormalsAligned(polyFaces[f].normal, polyFaces[f].triangles[j].normal)

----------------------------------------------------------------------------
(* PolyhedronViewer render by render: a render gets the props geometry and   *)
(* unfoldProgress, and each useMemo block runs when one of its dependencies  *)
(* is not the object or number of the previous render.  args records which   *)
(* props were new in the last render, result which blocks ran in it.         *)

RenderMeshes ==
    {MeshTetra, MeshSquare, MeshFannedSquare, MeshTwoSided, MeshTriangle, MeshFan,
     MeshOpenPyramid}

InitRender ==
    /\ geometry \in RenderMeshes
    /\ unfoldProgress \in 0 .. ProgressSteps
    /\ polyFaces = <<>>
    /\ polyEdges = <<>>
    /\ spanningForest = NoForest
    /\ faceSides = <<>>
    /\ faceTypes = <<>>
    /\ stats = NoStats
    /\ transforms = NoTransforms
    /\ parent = <<>>
    /\ firstRun = NoRun
    /\ args = <<>>
    /\ result = <<>>
    /\ pc = "mount"

\* what the analysis useMemo returned in the previous render
Memoized ==
    [polyFaces |-> polyFaces, polyEdges |-> polyEdges,
     spanningForest |-> spanningForest, faceSides |-> faceSides,
     faceTypes |-> faceTypes, stats |-> stats, parent |-> parent]

\* }, [geometry]): the block runs when the geometry prop is another object
AnalysisRuns(fresh, p) == fresh

\* mutation of TransformsRun: the dependencies are [unfoldProgress] only
TransformsRunOnProgress(fresh, p) == p # unfoldProgress

\* }, [spanningForest, polyFacesMap, unfoldProgress]): the analysis block
\* returns new objects whenever it runs
TransformsRun(fresh, p) == AnalysisRuns(fresh, p) \/ p # unfoldProgress

\* the render with the values a of the analysis block
RenderWith(g, p, a, runT) ==
    /\ geometry' = g
    /\ unfoldProgress' = p
    /\ polyFaces' = a.polyFaces
    /\ polyEdges' = a.polyEdges
    /\ spanningForest' = a.spanningForest
    /\ faceSides' = a.faceSides
    /\ faceTypes' = a.faceTypes
    /\ stats' = a.stats
    /\ parent' = a.parent
    /\ transforms' = IF runT
                     THEN Transforms(a.spanningForest, a.polyEdges, a.polyFaces, p)
                     ELSE transforms
    /\ pc' = "rendered"
    /\ UNCHANGED firstRun

\* the first render: both blocks run
FirstRender ==
    /\ pc = "mount"
    /\ \E a \in {Analysis(geometry)} : RenderWith(geometry, unfoldProgress, a, TRUE)
    /\ args' = [first |-> TRUE, geometry |-> TRUE, unfoldProgress |-> TRUE]
    /\ result' = [analysis |-> TRUE, transforms |-> TRUE]

\* a later render; fresh: the geometry prop is a new object (with the same
\* or with other triangles).  App resets the progress together with the
\* shape, and re-renders the viewer for other props with both unchanged.
Render(g, p, fresh) ==
    /\ pc = "rendered"
    /\ fresh \/ g = geometry
    /\ \E a \in {IF AnalysisRuns(fresh, p) THEN Analysis(g) ELSE Memoized} :
         RenderWith(g, p, a, TransformsRun(fresh, p))
    /\ args' = [first |-> FALSE, geometry |-> fresh,
                unfoldProgress |-> p # unfoldProgress]
    /\ result' = [analysis |-> AnalysisRuns(fresh, p),
                  transforms |-> TransformsRun(fresh, p)]

NextRender ==
    \/ FirstRender
    \/ \E g \in RenderMeshes, p \in 0 .. ProgressSteps, fresh \in BOOLEAN :
          Render(g, p, fresh)

SpecRender == InitRender /\ [][NextRender]_vars

\* C22: the analysis block runs in the first render and when the geometry
\* prop is new and in no other render, the transforms block runs in these
\* renders and when the progress is new and in no other, and after every
\* render the analysis values are those of the current geometry and the
\* transforms those of the current forest and progress
C22_MemoizedValuesCurrent ==
    pc = "rendered" =>
        /\ result.analysis <=> (args.first \/ args.geometry)
        /\ result.transforms <=> (args.first \/ args.geometry \/ args.unfoldProgress)
        /\ Memoized = Analysis(geometry)
        /\ transforms = Transforms(spanningForest, polyEdges, polyFaces, unfoldProgress)

\* a render with a new mesh and the old progress after one with a new
\* progress only: the transforms are not those kept from before
C22_Witness ==
    /\ pc = "rendered"
    /\ args = [first |-> FALSE, geometry |-> TRUE, unfoldProgress |-> FALSE]
    /\ result = [analysis |-> TRUE, transforms |-> TRUE]
    /\ unfoldProgress > 0
    /\ Len(polyFaces) > 1
    /\ \E f \in DOMAIN transforms.map : \E k \in DOMAIN transforms.initial :
          transforms.map[f] # transforms.initial[k].before

----------------------------------------------------------------------------
(* getVertexKey and getEdgeKey on their own, for two points near the origin *)
(* and near (0, 0, 1)                                                       *)

\* the largest coordinate of a point, in ticks
MaxTicks == 16

\* a coordinate exactly halfway between two keys is left out: the float32
\* nearest to such a number decides to which side toFixed rounds it
KeyCoordinates == {x \in (0 - MaxTicks) .. MaxTicks : Abs(x) % 10 # 5}

KeyPoints ==
    {<<x, y, z>> : x \in KeyCoordinates, y \in {0 - 4, 0, 4}, z \in {0, TicksPerUnit}}

InitKeys ==
    /\ args \in [a : KeyPoints, b : KeyPoints]
    /\ result = <<>>
    /\ geometry = <<>>
    /\ unfoldProgress = 0
    /\ polyFaces = <<>>
    /\ polyEdges = <<>>
    /\ spanningForest = NoForest
    /\ faceSides = <<>>
    /\ faceTypes = <<>>
    /\ stats = NoStats
    /\ transforms = NoTransforms
    /\ parent = <<>>
    /\ firstRun = NoRun
    /\ pc = "call"

\* the keys of a and of b, and the edge key asked for in both orders
CallGetEdgeKey ==
    /\ pc = "call"
    /\ result' = [keyA |-> getVertexKey(args.a), keyB |-> getVertexKey(args.b),
                  ab |-> getEdgeKey(args.a, args.b),
                  ba |-> getEdgeKey(args.b, args.a)]
    /\ pc' = "done"
    /\ UNCHANGED <<geometry, unfoldProgress, polyFaces, polyEdges, spanningForest,
                   faceSides, faceTypes, stats, transforms, parent, firstRun, args>>

NextKeys == CallGetEdgeKey

SpecKeys == InitKeys /\ [][NextKeys]_vars

----------------------------------------------------------------------------
(* Properties of the keys *)

\* C14: getEdgeKey(a, b) = getEdgeKey(b, a), and one point has one vertex key
C14_EdgeKeySymmetric ==
    pc = "done" =>
        /\ result.ab = result.ba
        /\ args.a = args.b => result.keyA = result.keyB

\* the key of a is the larger one, so getEdgeKey(a, b) puts the key of b first
C14_Witness ==
    /\ pc = "done"
    /\ StrLess(result.keyB, result.keyA)
    /\ result.ab = result.keyB \o <<ChBar>> \o result.keyA
    /\ result.ba = result.ab

\* C15: two points less than 1e-4 apart have the same vertex key
C15_NearPointsShareKey ==
    (pc = "done" /\ distanceBelowTol(args.a, args.b)) => result.keyA = result.keyB

----------------------------------------------------------------------------
(* Properties of the PolyEdges (under Spec) *)

\* the ids of the faces that hold the two triangles of every edge key used
\* by exactly two kept triangles of different faces, in the order of the keys
RECURSIVE CrossPairs(_, _, _, _)
CrossPairs(tris, edgeMap, faces, k) ==
    IF k > Len(edgeMap) THEN <<>>
    ELSE (IF /\ Len(edgeMap[k].tris) = 2
             /\ FaceOfTriangle(faces, tris[edgeMap[k].tris[1]].id)
                  # FaceOfTriangle(faces, tris[edgeMap[k].tris[2]].id)
          THEN <<<<faces[FaceOfTriangle(faces, tris[edgeMap[k].tris[1]].id)].id,
                   faces[FaceOfTriangle(faces, tris[edgeMap[k].tris[2]].id)].id>>>>
          ELSE <<>>)
         \o CrossPairs(tris, edgeMap, faces, k + 1)

CrossPairsOf(tris, faces) == CrossPairs(tris, BuildEdgeMap(tris, 1, <<>>), faces, 1)

\* the pairs of face ids that the mesh edges between two faces link
MeshLinks == CrossPairsOf(ReadTriangles(geometry, 1), polyFaces)

PolyEdgeLinks == [e \in DOMAIN polyEdges |-> <<polyEdges[e].face1, polyEdges[e].face2>>]

\* C16: the two faces of a PolyEdge differ and are in the PolyFace list, and
\* every PolyEdge comes from a mesh edge between triangles of two faces
C16_PolyEdgesJoinTwoFaces ==
    Mounted =>
        /\ \A e \in DOMAIN polyEdges :
              /\ polyEdges[e].face1 # polyEdges[e].face2
              /\ \E f \in DOMAIN polyFaces : polyFaces[f].id = polyEdges[e].face1
              /\ \E f \in DOMAIN polyFaces : polyFaces[f].id = polyEdges[e].face2
        /\ Range(PolyEdgeLinks) \subseteq Range(MeshLinks)
        /\ Len(polyEdges) <= Len(MeshLinks)

\* the cube: twelve PolyEdges, and six mesh edges inside the faces
C16_Witness ==
    /\ Mounted
    /\ Len(geometry) = 12
    /\ Len(polyFaces) = 6
    /\ Len(polyEdges) = 12

\* C17: every mesh edge between two triangles of different faces gives one
\* PolyEdge between those faces, and there are no other PolyEdges
C17_OnePolyEdgePerMeshEdge ==
    Mounted => PolyEdgeLinks = MeshLinks

====
